---- MODULE Spec2Model ----
(***************************************************************************)
(* AdTargetAI: the credit ledger (app/services/credit_service.py,          *)
(* app/crud_user.py, app/db/models/user.py, app/middleware/subscription.py, *)
(* app/api/v1/payments_razorpay.py) and the export state store             *)
(* (export_campaign in app/main.py, update_exported_ids in app/crud.py).    *)
(*                                                                         *)
(* Credits are floats in the source; every amount the program uses is a    *)
(* whole number of credits, so they are integers here.                     *)
(***************************************************************************)
EXTENDS Integers, Sequences, FiniteSets, TLC

\* ------------------------------------------------------------------------
\* Program constants
\* ------------------------------------------------------------------------
LOW_BALANCE_THRESHOLD == 20
CREDITS_PER_CAMPAIGN_GENERATION == 10
FREE_CREDITS_ON_SIGNUP == 20
CAMPAIGN_CREDIT_COST_BASIC == 10
CAMPAIGN_CREDIT_COST_STANDARD == 15
CAMPAIGN_CREDIT_COST_ADVANCED == 25
STARTER_PACKAGE_CREDITS == 100
STARTER_BONUS_CREDITS == 50
\* MistralReasoner: attempts of _call_mistral_api, attempts of an operation,
\* the cap of the exponential backoff in seconds
retry_attempts == 5
max_retries == 2
BACKOFF_CAP == 60
\* the capacity of campaigns_store
MAX_CACHE_SIZE == 1000

\* ------------------------------------------------------------------------
\* Bounds of the model
\* ------------------------------------------------------------------------
\* ledger calls made over the whole run, all request slots together
MaxCalls == 3
\* no credit is added once the balance would pass this cap
MaxBalance == 200
\* export_campaign calls in one run
MaxExports == 2
\* platform names in one export request
MaxPlatforms == 2

\* the concurrent request slots (each has its own AsyncSession and User object)
Req == {"r1", "r2"}

\* calculate_campaign_cost: a pure function of the number of platforms and
\* the advanced-targeting flag
calculate_campaign_cost(num_platforms, has_advanced_targeting) ==
    LET base == IF num_platforms = 1 THEN CAMPAIGN_CREDIT_COST_BASIC
                ELSE IF num_platforms <= 3 THEN CAMPAIGN_CREDIT_COST_STANDARD
                ELSE CAMPAIGN_CREDIT_COST_ADVANCED
    IN  IF has_advanced_targeting THEN base + 5 ELSE base

\* the amounts the ledger is called with: the costs of a campaign on one
\* platform and on two platforms
Amounts == {calculate_campaign_cost(1, FALSE), calculate_campaign_cost(2, FALSE)}

VARIABLES
    \* ---- the users row, as committed in the database
    credits_balance,
    total_credits_purchased,
    total_credits_used,
    \* ---- the audit tables, as committed in the database
    credit_usages,          \* CreditUsage rows, in insertion order
    transactions,           \* Transaction rows, in insertion order
    \* ---- one entry per request slot
    pc,                     \* where the request is
    user,                   \* the User object of the request's session
    result,                 \* what the last ledger call of the request returned
    ncalls,                 \* ledger calls made by the slot so far
    \* ---- history of the run
    deducted,               \* total of the amounts of the successful deductions
    credited,               \* total of the credits added
    mutations,              \* committed writes of credits_balance
    \* ---- the campaigns row and its children, as committed in the database
    exported_ids,           \* Campaign.exported_ids: platform -> identifier set
    export_history,         \* Campaign.export_history
    platform_feeds,         \* PlatformFeed rows written by exports
    export_logs,            \* ExportLog rows
    \* ---- the process
    campaigns_store,        \* the in-memory cache entry of the campaign
    \* ---- the export_campaign call in progress
    epc,                    \* where the call is
    create_real_ads,        \* its mode
    results,                \* what export_to_platforms returned
    todo,                   \* results still to persist, in order
    aggregated_exported,    \* the local aggregate being built
    tx_feeds,               \* rows flushed inside the transaction, not committed
    tx_logs,
    tx_aggregate,           \* the flushed campaign row, or NoRow
    attempt,                \* export_campaign calls started
    rolled_back,            \* rows the last rollback discarded
    \* ---- one PlatformRouter.export_to_platforms call
    rpc,                    \* where the call is
    router_platforms,       \* the list it was given
    router_real,            \* its create_real_ads
    tasks,                  \* the tasks list, in order
    platform_map,           \* platform -> task index
    router_results,         \* the map it returns
    invoked,                \* provider -> create_campaign_flow invocations
    remote_writes,          \* requests sent that change provider state
    elapsed,                \* seconds waited in asyncio.gather
    \* ---- the server and the campaign's stores, as export_campaign sees them
    server,                 \* ALLOW_REAL_ADS and how the operator key is set
    campaign_row,           \* the campaigns row exists
    disk_file,              \* data/campaigns/<campaign_id>.json exists
    cache_entry,            \* campaigns_store[campaign_id]: none, raw, tuple
    \* ---- the export_campaign call in progress, before its persistence
    gpc,                    \* where the call is
    gcall,                  \* its caller, mode, X-API-KEY and load path
    adapters_ran,           \* export_to_platforms was called
    export_persisted,       \* the export state was committed
    http_status,            \* the status the call answered with
    gate_calls,             \* export_campaign calls started
    \* ---- the create_campaign call in progress
    cpc,                    \* where the call is
    ccall,                  \* its cost, balances, platforms and refunds
    create_calls,           \* create_campaign calls started
    \* ---- one create_campaign_flow call in commit mode
    fpc,                    \* where the call is
    flow_platform,          \* the adapter
    flow_step,              \* the creation step it is at
    sent,                   \* the creation requests sent, in order
    created,                \* the steps whose object has an identifier
    failed_steps,           \* the steps that failed
    errors,                 \* entries of the errors list
    flow_status,            \* the status of the result
    flow_calls,             \* create_campaign_flow calls started
    \* ---- one call of the reasoning client
    mpc,                    \* where the call is
    operation,              \* infer_audience_insights or generate_campaign_strategy
    outer_attempt,          \* the attempt of the operation
    api_attempt,            \* the attempt of _call_mistral_api
    requests_sent,          \* requests sent to the reasoning service
    last_wait,              \* the last wait before a retry, without jitter
    all_failed,             \* no request of the call got a valid response
    reasoner_result,        \* what the operation returned
    reasoner_calls,         \* operations started
    \* ---- the last generate_platform_feeds call
    feed_platforms,         \* campaign_data["platforms"]
    feed_results,           \* the dict it returned
    feed_calls,             \* generate_platform_feeds calls made
    \* ---- the last _validate_insights_data call
    insights_data,          \* the ages and price_range of the parsed response
    validated_data,         \* the ages it returned
    validate_calls,         \* _validate_insights_data calls made
    \* ---- the campaign's platform feeds and the last export_campaign call
    pf_rows,                \* the PlatformFeed rows of the campaign, in order
    pf_cache,               \* campaigns_store[campaign_id] and its platform_feeds
    pf_invoked,             \* provider -> tasks the router ran in the call
    pf_requested,           \* the request's platforms list, or none
    pf_status,              \* the status the call answered with
    pf_calls,               \* export_campaign calls made
    \* ---- campaigns_store as a whole
    raw_entries,            \* entries that are raw dicts
    tuple_entries,          \* entries that are (data, timestamp) pairs
    \* ---- handle_subscription_payment
    ppc,                    \* where the call is
    payment_call,           \* its payment id and the tier of its order
    payment_status,         \* how the last call ended
    payment_records,        \* payment id -> tier of its Payment row, or none
    bonus_commits,          \* payment id -> committed bonus additions
    payment_calls           \* handle_subscription_payment calls started

ledgerVars == <<credits_balance, total_credits_purchased, total_credits_used,
                credit_usages, transactions>>
requestVars == <<pc, user, result, ncalls>>
historyVars == <<deducted, credited, mutations>>
campaignVars == <<exported_ids, export_history, platform_feeds, export_logs>>
exportVars == <<campaigns_store, epc, create_real_ads, results, todo,
                aggregated_exported, tx_feeds, tx_logs, tx_aggregate, attempt,
                rolled_back>>
routerVars == <<rpc, router_platforms, router_real, tasks, platform_map,
                router_results, invoked, remote_writes, elapsed>>
\* the state of the orchestration layer above the ledger and the export store
gateVars == <<server, campaign_row, disk_file, cache_entry, gpc, gcall,
              adapters_ran, export_persisted, http_status, gate_calls>>
createVars == <<cpc, ccall, create_calls>>
flowVars == <<fpc, flow_platform, flow_step, sent, created, failed_steps,
              errors, flow_status, flow_calls>>
\* the state of the adapters, the reasoning client, the feed generator, the
\* cache and the payment handler
reasonerVars == <<mpc, operation, outer_attempt, api_attempt, requests_sent,
                  last_wait, all_failed, reasoner_result, reasoner_calls>>
feedVars == <<feed_platforms, feed_results, feed_calls>>
insightsVars == <<insights_data, validated_data, validate_calls>>
defaultVars == <<pf_rows, pf_cache, pf_invoked, pf_requested, pf_status,
                 pf_calls>>
cacheVars == <<raw_entries, tuple_entries>>
paymentVars == <<ppc, payment_call, payment_status, payment_records,
                 bonus_commits, payment_calls>>
serviceVars == <<flowVars, reasonerVars, feedVars, insightsVars, defaultVars,
                 cacheVars, paymentVars>>
\* the state of the ledger, the export store and the request handlers
coreVars == <<ledgerVars, requestVars, historyVars, campaignVars, exportVars,
              routerVars, gateVars, createVars>>
orchestratorVars == <<routerVars, gateVars, createVars, serviceVars>>
\* what an action of one service leaves alone
notFlowVars == <<coreVars, reasonerVars, feedVars, insightsVars, defaultVars,
                cacheVars, paymentVars>>
notDefaultVars == <<coreVars, flowVars, reasonerVars, feedVars, insightsVars,
                   cacheVars, paymentVars>>
notCacheVars == <<coreVars, flowVars, reasonerVars, feedVars, insightsVars,
                 defaultVars, paymentVars>>
vars == <<ledgerVars, requestVars, historyVars, campaignVars, exportVars,
          orchestratorVars>>

\* ------------------------------------------------------------------------
\* The credit ledger
\* ------------------------------------------------------------------------
\* the users row a SELECT returns: get_current_user, session.refresh(user)
DbUser ==
    [credits_balance |-> credits_balance,
     total_credits_purchased |-> total_credits_purchased,
     total_credits_used |-> total_credits_used]

\* has_sufficient_credits as it would be if it only asked for a positive
\* balance
has_sufficient_credits_any(u, required_credits) ==
    u.credits_balance > 0

\* User.has_sufficient_credits
has_sufficient_credits(u, required_credits) ==
    u.credits_balance >= required_credits

\* User.deduct_credits raises ValueError: a non-positive amount, or too
\* little balance
User_deduct_credits_raises(u, amount) ==
    amount <= 0 \/ ~has_sufficient_credits(u, amount)

\* User.deduct_credits, when it does not raise
User_deduct_credits(u, amount) ==
    [u EXCEPT !.credits_balance = @ - amount,
              !.total_credits_used = @ + amount]

\* the guard of CreditService.deduct_credits as it would be if it rejected
\* only an empty balance
CreditService_insufficient_empty(u, amount) ==
    u.credits_balance <= 0

\* the guard of CreditService.deduct_credits
CreditService_insufficient(u, amount) ==
    u.credits_balance < amount

\* the guard of SubscriptionChecker.deduct_credits
SubscriptionChecker_insufficient(u, amount) ==
    u.credits_balance < amount

\* check_balance as it would be if the low-balance flag were raised only
\* when the check succeeds
check_balance_result_low_if_enough(u, required_credits) ==
    LET has_enough == u.credits_balance >= required_credits
        is_low == has_enough /\ u.credits_balance <= LOW_BALANCE_THRESHOLD
    IN  [op |-> "check_balance",
         has_enough |-> has_enough,
         current_balance |-> u.credits_balance,
         required |-> required_credits,
         after_deduction |-> IF has_enough
                             THEN u.credits_balance - required_credits
                             ELSE u.credits_balance,
         is_low_balance |-> is_low]

\* CreditService.check_balance: the dict it returns
check_balance_result(u, required_credits) ==
    LET has_enough == u.credits_balance >= required_credits
        is_low == u.credits_balance <= LOW_BALANCE_THRESHOLD
    IN  [op |-> "check_balance",
         has_enough |-> has_enough,
         current_balance |-> u.credits_balance,
         required |-> required_credits,
         after_deduction |-> IF has_enough
                             THEN u.credits_balance - required_credits
                             ELSE u.credits_balance,
         is_low_balance |-> is_low]

NoResult == [op |-> "none"]

\* a slot without a request has no User object
NoUser ==
    [credits_balance |-> 0, total_credits_purchased |-> 0, total_credits_used |-> 0]

RECURSIVE Sum(_, _)
Sum(f, S) ==
    IF S = {} THEN 0
    ELSE LET x == CHOOSE y \in S : TRUE IN f[x] + Sum(f, S \ {x})

\* the slot may make one more ledger call
MayCall(r) == Sum(ncalls, Req) < MaxCalls

Called(r) == ncalls' = [ncalls EXCEPT ![r] = @ + 1]

\* the request's dependency get_current_user: SELECT the users row into the
\* request's session (no FOR UPDATE, no version column)
get_current_user(r) ==
    /\ pc[r] = "idle"
    /\ MayCall(r)
    /\ pc' = [pc EXCEPT ![r] = "ready"]
    /\ user' = [user EXCEPT ![r] = DbUser]
    /\ result' = [result EXCEPT ![r] = NoResult]
    /\ UNCHANGED <<ncalls, ledgerVars, historyVars, campaignVars, exportVars, orchestratorVars>>

\* the handler returns and its session is closed
end_request(r) ==
    /\ pc[r] = "ready"
    /\ pc' = [pc EXCEPT ![r] = "idle"]
    /\ user' = [user EXCEPT ![r] = NoUser]
    /\ result' = [result EXCEPT ![r] = NoResult]
    /\ UNCHANGED <<ncalls, ledgerVars, historyVars, campaignVars, exportVars, orchestratorVars>>

\* CreditService.check_balance
check_balance(r, required_credits) ==
    /\ pc[r] = "ready"
    /\ MayCall(r)
    /\ Called(r)
    /\ result' = [result EXCEPT ![r] = check_balance_result(user[r], required_credits)]
    /\ UNCHANGED <<pc, user, ledgerVars, historyVars, campaignVars, exportVars, orchestratorVars>>

\* CreditService.deduct_credits up to its session.commit(): the UPDATE writes
\* the balance computed from the session's User object
deduct_credits(r, amount) ==
    /\ pc[r] = "ready"
    /\ MayCall(r)
    /\ Called(r)
    /\ IF CreditService_insufficient(user[r], amount)
       THEN /\ result' = [result EXCEPT ![r] =
                    [op |-> "deduct_credits", status |-> "insufficient_credits",
                     amount |-> amount]]
            /\ pc' = [pc EXCEPT ![r] = "idle"]
            /\ UNCHANGED <<user, ledgerVars, historyVars>>
       ELSE /\ user' = [user EXCEPT ![r].credits_balance = @ - amount]
            /\ credits_balance' = user'[r].credits_balance
            /\ result' = [result EXCEPT ![r] =
                    [op |-> "deduct_credits", status |-> "success",
                     amount |-> amount,
                     old_balance |-> user[r].credits_balance,
                     new_balance |-> user'[r].credits_balance]]
            /\ pc' = [pc EXCEPT ![r] = "refresh"]
            /\ deducted' = deducted + amount
            /\ mutations' = mutations + 1
            /\ UNCHANGED <<total_credits_purchased, total_credits_used,
                           credit_usages, transactions, credited>>
    /\ UNCHANGED <<campaignVars, exportVars, orchestratorVars>>

\* CreditService.refund_credits up to its session.commit()
refund_credits(r, amount) ==
    /\ pc[r] = "ready"
    /\ MayCall(r)
    /\ user[r].credits_balance + amount <= MaxBalance
    /\ Called(r)
    /\ user' = [user EXCEPT ![r].credits_balance = @ + amount]
    /\ credits_balance' = user'[r].credits_balance
    /\ result' = [result EXCEPT ![r] =
            [op |-> "refund_credits", status |-> "success", amount |-> amount,
             old_balance |-> user[r].credits_balance,
             new_balance |-> user'[r].credits_balance]]
    /\ pc' = [pc EXCEPT ![r] = "refresh"]
    /\ credited' = credited + amount
    /\ mutations' = mutations + 1
    /\ UNCHANGED <<total_credits_purchased, total_credits_used,
                   credit_usages, transactions, deducted,
                   campaignVars, exportVars, orchestratorVars>>

\* CreditService.add_bonus_credits up to its session.commit()
add_bonus_credits(r, amount) ==
    /\ pc[r] = "ready"
    /\ MayCall(r)
    /\ user[r].credits_balance + amount <= MaxBalance
    /\ Called(r)
    /\ user' = [user EXCEPT ![r].credits_balance = @ + amount]
    /\ credits_balance' = user'[r].credits_balance
    /\ result' = [result EXCEPT ![r] =
            [op |-> "add_bonus_credits", status |-> "success", amount |-> amount,
             old_balance |-> user[r].credits_balance,
             new_balance |-> user'[r].credits_balance]]
    /\ pc' = [pc EXCEPT ![r] = "refresh"]
    /\ credited' = credited + amount
    /\ mutations' = mutations + 1
    /\ UNCHANGED <<total_credits_purchased, total_credits_used,
                   credit_usages, transactions, deducted,
                   campaignVars, exportVars, orchestratorVars>>

\* the session.refresh(user) that ends deduct_credits, refund_credits and
\* add_bonus_credits: the returned new_balance is read after it
session_refresh(r) ==
    /\ pc[r] = "refresh"
    /\ user' = [user EXCEPT ![r] = DbUser]
    /\ result' = [result EXCEPT ![r].new_balance = credits_balance]
    /\ pc' = [pc EXCEPT ![r] = "ready"]
    /\ UNCHANGED <<ncalls, ledgerVars, historyVars, campaignVars, exportVars, orchestratorVars>>

\* SubscriptionChecker.deduct_credits (commits, does not refresh)
SubscriptionChecker_deduct_credits(r, amount) ==
    /\ pc[r] = "ready"
    /\ MayCall(r)
    /\ Called(r)
    /\ IF SubscriptionChecker_insufficient(user[r], amount)
       THEN /\ result' = [result EXCEPT ![r] =
                    [op |-> "SubscriptionChecker.deduct_credits",
                     status |-> "insufficient_credits", amount |-> amount]]
            /\ pc' = [pc EXCEPT ![r] = "idle"]
            /\ UNCHANGED <<user, ledgerVars, historyVars>>
       ELSE /\ user' = [user EXCEPT ![r].credits_balance = @ - amount]
            /\ credits_balance' = user'[r].credits_balance
            /\ result' = [result EXCEPT ![r] =
                    [op |-> "SubscriptionChecker.deduct_credits",
                     status |-> "success", amount |-> amount]]
            /\ pc' = pc
            /\ deducted' = deducted + amount
            /\ mutations' = mutations + 1
            /\ UNCHANGED <<total_credits_purchased, total_credits_used,
                           credit_usages, transactions, credited>>
    /\ UNCHANGED <<campaignVars, exportVars, orchestratorVars>>

\* record_credit_usage and the commit of its caller's unit of work: the
\* users row and the CreditUsage row are written together
RecordUsage(r, credits_used, nextpc) ==
    IF User_deduct_credits_raises(user[r], credits_used)
    THEN /\ result' = [result EXCEPT ![r] =
                 [op |-> "record_credit_usage", status |-> "insufficient_credits",
                  amount |-> credits_used]]
         /\ pc' = [pc EXCEPT ![r] = "idle"]
         /\ UNCHANGED <<user, ledgerVars, historyVars>>
    ELSE LET after == User_deduct_credits(user[r], credits_used)
             usage == [credits_used |-> credits_used,
                       action |-> "campaign_generation",
                       balance_before |-> user[r].credits_balance,
                       balance_after |-> after.credits_balance]
         IN  /\ user' = [user EXCEPT ![r] = after]
             /\ credits_balance' = after.credits_balance
             /\ total_credits_used' = after.total_credits_used
             /\ credit_usages' = Append(credit_usages, usage)
             /\ result' = [result EXCEPT ![r] =
                     [op |-> "record_credit_usage", status |-> "success",
                      amount |-> credits_used,
                      old_balance |-> usage.balance_before,
                      new_balance |-> usage.balance_after]]
             /\ pc' = [pc EXCEPT ![r] = nextpc]
             /\ deducted' = deducted + credits_used
             /\ mutations' = mutations + 1
             /\ UNCHANGED <<total_credits_purchased, transactions, credited>>

\* record_credit_usage called on its own
record_credit_usage(r, credits_used) ==
    /\ pc[r] = "ready"
    /\ MayCall(r)
    /\ Called(r)
    /\ RecordUsage(r, credits_used, "ready")
    /\ UNCHANGED <<campaignVars, exportVars, orchestratorVars>>

\* generate_campaign, its credit check before any work
generate_campaign_check(r) ==
    /\ pc[r] = "ready"
    /\ MayCall(r)
    /\ Called(r)
    /\ IF ~has_sufficient_credits(user[r], CREDITS_PER_CAMPAIGN_GENERATION)
       THEN /\ result' = [result EXCEPT ![r] =
                    [op |-> "generate_campaign", status |-> "payment_required",
                     amount |-> CREDITS_PER_CAMPAIGN_GENERATION]]
            /\ pc' = [pc EXCEPT ![r] = "idle"]
       ELSE /\ result' = [result EXCEPT ![r] =
                    [op |-> "generate_campaign", status |-> "reasoning",
                     amount |-> CREDITS_PER_CAMPAIGN_GENERATION]]
            /\ pc' = [pc EXCEPT ![r] = "reasoning"]
    /\ UNCHANGED <<user, ledgerVars, historyVars, campaignVars, exportVars, orchestratorVars>>

\* generate_campaign after the reasoner returned: the campaign rows, the
\* deduction and its CreditUsage row are committed together
generate_campaign_persist(r) ==
    /\ pc[r] = "reasoning"
    /\ ncalls' = ncalls
    /\ RecordUsage(r, CREDITS_PER_CAMPAIGN_GENERATION, "idle")
    /\ UNCHANGED <<campaignVars, exportVars, orchestratorVars>>

\* generate_campaign when validation, the reasoner or a database write
\* raises: the transaction is rolled back and the call answers 400
generate_campaign_fail(r) ==
    /\ pc[r] = "reasoning"
    /\ result' = [result EXCEPT ![r] =
            [op |-> "generate_campaign", status |-> "failed",
             amount |-> CREDITS_PER_CAMPAIGN_GENERATION]]
    /\ pc' = [pc EXCEPT ![r] = "idle"]
    /\ UNCHANGED <<user, ncalls, ledgerVars, historyVars, campaignVars, exportVars, orchestratorVars>>

\* purchase_credits, first commit: the pending Transaction row
purchase_credits(r, payment_confirmed) ==
    /\ pc[r] = "ready"
    /\ MayCall(r)
    /\ Called(r)
    /\ transactions' = Append(transactions,
            [status |-> "pending", credits_purchased |-> STARTER_PACKAGE_CREDITS])
    /\ result' = [result EXCEPT ![r] =
            [op |-> "purchase_credits", status |-> "pending",
             transaction_id |-> Len(transactions) + 1]]
    /\ pc' = [pc EXCEPT ![r] = IF payment_confirmed THEN "confirm" ELSE "idle"]
    /\ UNCHANGED <<user, credits_balance, total_credits_purchased,
                   total_credits_used, credit_usages, historyVars,
                   campaignVars, exportVars, orchestratorVars>>

\* purchase_credits, second commit: the Transaction becomes SUCCESS and the
\* credits are added in the same commit
purchase_credits_confirm(r) ==
    /\ pc[r] = "confirm"
    /\ user[r].credits_balance + STARTER_PACKAGE_CREDITS <= MaxBalance
    /\ user' = [user EXCEPT
            ![r].credits_balance = @ + STARTER_PACKAGE_CREDITS,
            ![r].total_credits_purchased = @ + STARTER_PACKAGE_CREDITS]
    /\ credits_balance' = user'[r].credits_balance
    /\ total_credits_purchased' = user'[r].total_credits_purchased
    /\ transactions' = [transactions EXCEPT
            ![result[r].transaction_id].status = "success"]
    /\ result' = [result EXCEPT ![r].status = "success"]
    /\ pc' = [pc EXCEPT ![r] = "idle"]
    /\ credited' = credited + STARTER_PACKAGE_CREDITS
    /\ mutations' = mutations + 1
    /\ UNCHANGED <<ncalls, total_credits_used, credit_usages, deducted,
                   campaignVars, exportVars, orchestratorVars>>

\* purchase_credits when the second commit raises: rollback, answer 500
purchase_credits_fail(r) ==
    /\ pc[r] = "confirm"
    /\ result' = [result EXCEPT ![r].status = "failed"]
    /\ pc' = [pc EXCEPT ![r] = "idle"]
    /\ UNCHANGED <<user, ncalls, ledgerVars, historyVars, campaignVars, exportVars, orchestratorVars>>

InitLedger ==
    /\ credits_balance = FREE_CREDITS_ON_SIGNUP
    /\ total_credits_purchased = 0
    /\ total_credits_used = 0
    /\ credit_usages = << >>
    /\ transactions = << >>
    /\ pc = [r \in Req |-> "idle"]
    /\ user = [r \in Req |-> NoUser]
    /\ result = [r \in Req |-> NoResult]
    /\ ncalls = [r \in Req |-> 0]
    /\ deducted = 0
    /\ credited = 0
    /\ mutations = 0

NextLedger ==
    \E r \in Req :
        \/ get_current_user(r)
        \/ end_request(r)
        \/ \E a \in Amounts : check_balance(r, a)
        \/ \E a \in Amounts : deduct_credits(r, a)
        \/ \E a \in Amounts : refund_credits(r, a)
        \/ add_bonus_credits(r, STARTER_BONUS_CREDITS)
        \/ session_refresh(r)
        \/ \E a \in Amounts : SubscriptionChecker_deduct_credits(r, a)
        \/ \E a \in Amounts : record_credit_usage(r, a)
        \/ generate_campaign_check(r)
        \/ generate_campaign_persist(r)
        \/ generate_campaign_fail(r)
        \/ \E c \in BOOLEAN : purchase_credits(r, c)
        \/ purchase_credits_confirm(r)
        \/ purchase_credits_fail(r)

\* ------------------------------------------------------------------------
\* The export state store: export_campaign and update_exported_ids
\* ------------------------------------------------------------------------
\* names a request may list: two providers with a create_campaign_flow and
\* one the router does not know
Platforms == {"facebook", "google", "snapchat"}

EmptyMap == [k \in {} |-> 0]

NoRow == [written |-> FALSE]

\* an export_campaign call is inside its persistence block
Calling == epc \in {"persist", "commit"}

\* the identifier roles export_campaign reads from the top level of a result
ExportedIdKeys == {"campaign_id", "adset_id", "creative_id", "ad_id"}
\* the roles of GoogleAdsExporter's identifier set
GoogleIdKeys == {"budget_resource", "campaign_resource", "ad_group_resource",
                 "ad_resource"}

\* a set of identifiers of one attempt; n stands for the timestamp or the
\* provider's numbering that makes the identifiers of two attempts differ
IdSet(keys, kind, n) == [k \in keys |-> <<kind, n>>]

\* a result dict: its status, the identifier keys at its top level, and its
\* "exported_ids" entry (EmptyMap when the dict has none)
Result(status, platform, top, nested) ==
    [status |-> status, platform |-> platform, top |-> top, exported_ids |-> nested]

\* FacebookExporter.create_campaign_flow: the results it can return
FacebookResults(real, n) ==
    IF ~real
    THEN {Result("success", "facebook", EmptyMap,
                 IdSet(ExportedIdKeys, "dry_fb", n))}
    ELSE {Result("error", "facebook", EmptyMap, EmptyMap),
          Result("partial_success", "facebook", EmptyMap, EmptyMap),
          Result("success", "facebook", IdSet(ExportedIdKeys, "fb", n), EmptyMap)}

\* GoogleAdsExporter.create_campaign_flow: the results it can return
GoogleResults(real, n) ==
    IF ~real
    THEN {Result("success", "google", EmptyMap,
                 IdSet(GoogleIdKeys, "dry_google", n))}
    ELSE {Result("error", "google", EmptyMap, EmptyMap),
          Result("success", "google", EmptyMap,
                 IdSet(GoogleIdKeys, "google", n))}

\* PlatformRouter.export_to_platforms, one name of the list
PlatformResults(platform, real, n) ==
    CASE platform = "facebook" -> FacebookResults(real, n)
      [] platform = "google" -> GoogleResults(real, n)
      [] OTHER -> {Result("skipped", platform, EmptyMap, EmptyMap)}

\* the platform lists of a request
PlatformLists == UNION {[1..k -> Platforms] : k \in 1..MaxPlatforms}

RECURSIVE KeysInOrder(_)
\* the keys of platform_map in insertion order: each name once, at its first
\* place in the list
KeysInOrder(list) ==
    IF list = << >> THEN << >>
    ELSE LET init == KeysInOrder(SubSeq(list, 1, Len(list) - 1))
             last == list[Len(list)]
         IN  IF \E i \in 1..Len(init) : init[i] = last THEN init
             ELSE Append(init, last)

Range(f) == {f[i] : i \in DOMAIN f}

\* the identifier set the adapter returned in a result
ReturnedIds(res) ==
    IF res.exported_ids # EmptyMap THEN res.exported_ids ELSE res.top

\* export_campaign: exported_ids = {k: res.get(k) for k in (...) if res.get(k)}
TopLevelIds(res) ==
    [k \in (ExportedIdKeys \cap DOMAIN res.top) |-> res.top[k]]

\* the aggregation as it would be without its "if success"
AggregatesResult_always(res) ==
    TRUE

\* export_campaign: the aggregate takes a result only "if success"
AggregatesResult(res) ==
    res.status = "success"

\* dict.update
Update(existing, other) ==
    [k \in DOMAIN existing \cup DOMAIN other |->
        IF k \in DOMAIN other THEN other[k] ELSE existing[k]]


RECURSIVE ResultMaps(_, _, _)
\* PlatformRouter.export_to_platforms: the maps platform -> result it can
\* return for a set of names
ResultMaps(names, real, n) ==
    IF names = {} THEN {EmptyMap}
    ELSE LET p == CHOOSE x \in names : TRUE
         IN  {Update(rest, [k \in {p} |-> res]) :
                  rest \in ResultMaps(names \ {p}, real, n),
                  res \in PlatformResults(p, real, n)}

\* export_campaign up to the start of its persistence block: the router has
\* returned, the campaigns row is read
export_campaign(platforms, real) ==
    /\ epc \in {"idle", "done", "failed"}
    /\ attempt < MaxExports
    /\ attempt' = attempt + 1
    /\ create_real_ads' = real
    /\ results' \in ResultMaps(Range(platforms), real, attempt')
    /\ todo' = KeysInOrder(platforms)
    /\ aggregated_exported' = exported_ids
    /\ tx_feeds' = << >>
    /\ tx_logs' = << >>
    /\ tx_aggregate' = NoRow
    /\ rolled_back' = 0
    /\ epc' = "persist"
    /\ UNCHANGED <<campaigns_store, campaignVars,
                   ledgerVars, requestVars, historyVars, orchestratorVars>>

\* one turn of the loop over results.items(): the PlatformFeed row, the
\* ExportLog row, the feed's export status, the local aggregate
export_campaign_persist_result ==
    /\ epc = "persist"
    /\ todo # << >>
    /\ LET platform_name == Head(todo)
           res == results[platform_name]
           ids == TopLevelIds(res)
       IN  /\ tx_feeds' = Append(tx_feeds,
                  [platform |-> platform_name, export_status |-> res.status,
                   exported_ids |-> ids, attempt |-> attempt])
           /\ tx_logs' = Append(tx_logs,
                  [platform |-> platform_name,
                   mode |-> IF create_real_ads THEN "real" ELSE "dry_run",
                   success |-> (res.status = "success")])
           /\ aggregated_exported' =
                  IF AggregatesResult(res)
                  THEN Update(aggregated_exported,
                              [k \in {platform_name} |-> ids])
                  ELSE aggregated_exported
    /\ todo' = Tail(todo)
    /\ UNCHANGED <<campaigns_store, epc, create_real_ads, results,
                   tx_aggregate, attempt, rolled_back, campaignVars,
                   ledgerVars, requestVars, historyVars, orchestratorVars>>

\* crud.update_exported_ids (the second definition, which replaces the
\* first): merge into the row, append to export_history, flush
update_exported_ids ==
    /\ epc = "persist"
    /\ todo = << >>
    /\ tx_aggregate' =
           [written |-> TRUE,
            exported_ids |-> Update(exported_ids, aggregated_exported),
            export_history |-> Append(export_history,
                [ts |-> attempt, exported_ids |-> aggregated_exported])]
    /\ epc' = "commit"
    /\ UNCHANGED <<campaigns_store, create_real_ads, results, todo,
                   aggregated_exported, tx_feeds, tx_logs, attempt,
                   rolled_back, campaignVars,
                   ledgerVars, requestVars, historyVars, orchestratorVars>>

\* session.commit(), then the cache entry is replaced
export_campaign_commit ==
    /\ epc = "commit"
    /\ platform_feeds' = platform_feeds \o tx_feeds
    /\ export_logs' = export_logs \o tx_logs
    /\ exported_ids' = tx_aggregate.exported_ids
    /\ export_history' = tx_aggregate.export_history
    /\ campaigns_store' = [cached |-> TRUE, exported_ids |-> aggregated_exported]
    /\ tx_feeds' = << >>
    /\ tx_logs' = << >>
    /\ tx_aggregate' = NoRow
    /\ aggregated_exported' = EmptyMap
    /\ epc' = "done"
    /\ UNCHANGED <<create_real_ads, results, todo, attempt, rolled_back,
                   ledgerVars, requestVars, historyVars, orchestratorVars>>

\* the rollback as it would be if the PlatformFeed rows had been committed
\* one by one
export_campaign_rollback_keeps_feeds ==
    /\ Calling
    /\ rolled_back' = Len(tx_logs) + (IF tx_aggregate.written THEN 1 ELSE 0)
    /\ platform_feeds' = platform_feeds \o tx_feeds
    /\ tx_feeds' = << >>
    /\ tx_logs' = << >>
    /\ tx_aggregate' = NoRow
    /\ results' = EmptyMap
    /\ todo' = << >>
    /\ aggregated_exported' = EmptyMap
    /\ epc' = "failed"
    /\ UNCHANGED <<campaigns_store, create_real_ads, attempt, exported_ids,
                   export_history, export_logs,
                   ledgerVars, requestVars, historyVars, orchestratorVars>>

\* a write of the block raises: the except branch calls session.rollback()
\* and the call answers 500
export_campaign_rollback ==
    /\ Calling
    /\ rolled_back' = Len(tx_feeds) + Len(tx_logs)
                      + (IF tx_aggregate.written THEN 1 ELSE 0)
    /\ tx_feeds' = << >>
    /\ tx_logs' = << >>
    /\ tx_aggregate' = NoRow
    /\ results' = EmptyMap
    /\ todo' = << >>
    /\ aggregated_exported' = EmptyMap
    /\ epc' = "failed"
    /\ UNCHANGED <<campaigns_store, create_real_ads, attempt, campaignVars,
                   ledgerVars, requestVars, historyVars, orchestratorVars>>

InitExport ==
    /\ exported_ids = EmptyMap
    /\ export_history = << >>
    /\ platform_feeds = << >>
    /\ export_logs = << >>
    /\ campaigns_store = [cached |-> FALSE, exported_ids |-> EmptyMap]
    /\ epc = "idle"
    /\ create_real_ads = FALSE
    /\ results = EmptyMap
    /\ todo = << >>
    /\ aggregated_exported = EmptyMap
    /\ tx_feeds = << >>
    /\ tx_logs = << >>
    /\ tx_aggregate = NoRow
    /\ attempt = 0
    /\ rolled_back = 0

NextExport ==
    \/ \E platforms \in PlatformLists, real \in BOOLEAN :
           export_campaign(platforms, real)
    \/ export_campaign_persist_result
    \/ update_exported_ids
    \/ export_campaign_commit
    \/ export_campaign_rollback

\* ------------------------------------------------------------------------
\* The orchestrator: PlatformRouter.export_to_platforms and the adapters'
\* create_campaign_flow
\* ------------------------------------------------------------------------
\* PlatformRouter.__init__: self.timeout, in seconds
ROUTER_TIMEOUT == 30

\* names a list may hold: a provider under two spellings, a second provider,
\* a provider whose exporter class has no create_campaign_flow, and a name
\* the router does not know
RouterNames == {"facebook", "Facebook", "google", "tiktok", "snapchat"}

\* str(platform).lower(), on the names of RouterNames
Lower(platform) ==
    IF platform = "Facebook" THEN "facebook" ELSE platform

\* the names export_to_platforms has an exporter class for
RouterKnown == {"facebook", "google", "tiktok", "instagram", "linkedin"}

\* the exporter classes that define create_campaign_flow
HasCreateCampaignFlow == {"facebook", "google"}

\* the lists export_to_platforms is called with
RouterLists == UNION {[1..k -> RouterNames] : k \in 1..MaxPlatforms}

\* a result dict: its status, platform and message, and the keys it has
ResultDict(status, platform, message, fields) ==
    [status |-> status, platform |-> platform, message |-> message,
     fields |-> fields]

NoDict == ResultDict("none", "", "", {})

\* the dicts export_to_platforms builds itself: skipped, error
RouterDict(status, platform, message) ==
    ResultDict(status, platform, message, {"status", "platform", "message"})

\* FacebookExporter.create_campaign_flow: the dicts it returns
FacebookFlowResults(real, initialized) ==
    LET raised == ResultDict("error", "facebook", "exception",
                     {"status", "platform", "message", "execution_time"})
    IN  IF ~real
        THEN {raised,
              ResultDict("success", "facebook", "Dry-run: payload prepared.",
                  {"status", "platform", "mode", "campaign_payload",
                   "exported_ids", "message", "execution_time", "step_details"})}
        ELSE IF ~initialized
        THEN {raised,
              ResultDict("error", "facebook", "Facebook SDK not initialized",
                  {"status", "platform", "mode", "message", "execution_time"})}
        ELSE {raised,
              ResultDict("error", "facebook", "exception",
                  {"status", "platform", "message", "created", "step_details",
                   "execution_time"}),
              ResultDict("partial_success", "facebook", "created with errors",
                  {"status", "platform", "mode", "created", "step_details",
                   "errors", "message", "execution_time"}),
              ResultDict("success", "facebook", "created successfully",
                  {"status", "platform", "mode", "campaign_id", "adset_id",
                   "creative_id", "ad_id", "step_details", "message",
                   "execution_time"})}

\* GoogleAdsExporter.create_campaign_flow: the dicts it returns; the dict of
\* a real success has no "message" key
GoogleFlowResults(real, allow_real_ads) ==
    LET raised == ResultDict("error", "google", "exception",
                     {"status", "platform", "message", "execution_time"})
    IN  IF ~real
        THEN {raised,
              ResultDict("success", "google", "Dry-run: google payload prepared.",
                  {"status", "platform", "mode", "campaign_payload",
                   "exported_ids", "message", "execution_time", "step_details"})}
        ELSE IF ~allow_real_ads
        THEN {raised,
              ResultDict("error", "google", "Server not configured to allow real ads",
                  {"status", "platform", "mode", "message", "execution_time"})}
        ELSE {raised,
              ResultDict("error", "google", "not configured",
                  {"status", "platform", "mode", "message", "execution_time"}),
              ResultDict("error", "google", "exception",
                  {"status", "platform", "mode", "message", "step_details",
                   "execution_time"}),
              ResultDict("success", "google", "",
                  {"status", "platform", "mode", "created", "step_details",
                   "exported_ids", "execution_time"})}

\* FacebookExporter._build_campaign_payload uploads the image to the ad
\* account (POST .../adimages) when the server allows real ads, the
\* campaign has an image and the credentials are set: whatever the mode
UploadsImage(allow_real_ads, image_url, credentials) ==
    allow_real_ads /\ image_url /\ credentials

\* the requests a flow sends that change provider state
FlowRemoteWrites(platform, real, res, allow_real_ads, image_url, credentials) ==
    (IF platform = "facebook" /\ UploadsImage(allow_real_ads, image_url, credentials)
     THEN {[platform |-> platform, create_real_ads |-> real, request |-> "adimages"]}
     ELSE {})
    \cup
    (IF real /\ res.status \in {"success", "partial_success"}
     THEN {[platform |-> platform, create_real_ads |-> real, request |-> "create"]}
     ELSE {})

\* platform_map[platform_lower] = len(tasks) - 1, with the key spelled as given
PlatformMapPut_unlowered(map, platform, idx) ==
    Update(map, [k \in {platform} |-> idx])

\* platform_map[platform_lower] = len(tasks) - 1
PlatformMapPut(map, platform, idx) ==
    Update(map, [k \in {Lower(platform)} |-> idx])

\* one entry of the tasks list
Task(platform, kind, state, res, error) ==
    [platform |-> platform, kind |-> kind, state |-> state, result |-> res,
     error |-> error]

\* the task the loop appends for a name: a create_task of _call_exporter, or
\* a finished asyncio.sleep(0, result=...) for a name it does not know or
\* whose exporter could not be constructed
ScheduledTask(platform, constructed) ==
    LET platform_lower == Lower(platform)
    IN  IF platform_lower \notin RouterKnown
        THEN Task(platform_lower, "immediate", "done",
                  RouterDict("skipped", platform_lower, "not implemented"), "")
        ELSE IF ~constructed
        THEN Task(platform_lower, "immediate", "done",
                  RouterDict("error", platform_lower, "init failed"), "")
        ELSE Task(platform_lower, "exporter", "pending", NoDict, "")

RECURSIVE ScheduleTasks(_, _)
\* the for loop of export_to_platforms: it has no await, so no task runs
\* before it ends. failed holds the places whose exporter raises when built
ScheduleTasks(list, failed) ==
    IF list = << >> THEN [tasks |-> << >>, platform_map |-> EmptyMap]
    ELSE LET n == Len(list)
             before == ScheduleTasks(SubSeq(list, 1, n - 1), failed)
         IN  [tasks |-> Append(before.tasks,
                               ScheduledTask(list[n], n \notin failed)),
              platform_map |-> PlatformMapPut(before.platform_map, list[n], n)]

\* the loop after asyncio.gather(return_exceptions=True): an exception
\* becomes an error dict with its message
GatheredResult(task) ==
    IF task.state = "raised"
    THEN RouterDict("error", task.platform, task.error)
    ELSE task.result

\* every task has finished
AllFinished == \A i \in 1..Len(tasks) : tasks[i].state \in {"done", "raised"}

\* export_to_platforms up to its await of asyncio.gather
export_to_platforms(list, real, failed) ==
    /\ rpc = "idle"
    /\ router_platforms' = list
    /\ router_real' = real
    /\ LET scheduled == ScheduleTasks(list, failed)
       IN  /\ tasks' = scheduled.tasks
           /\ platform_map' = scheduled.platform_map
    /\ rpc' = "gathering"
    /\ UNCHANGED <<router_results, invoked, remote_writes, elapsed,
                   ledgerVars, requestVars, historyVars, campaignVars, exportVars,
                   gateVars, createVars, serviceVars>>

\* _call_exporter of task i: AttributeError when the exporter has no
\* create_campaign_flow, otherwise the flow runs in a thread and returns a
\* dict, whatever the server's configuration and the campaign's image
call_exporter(i, allow_real_ads, image_url, credentials) ==
    /\ rpc = "gathering"
    /\ i \in 1..Len(tasks)
    /\ tasks[i].state = "pending"
    /\ LET platform == tasks[i].platform
       IN  IF platform \notin HasCreateCampaignFlow
           THEN /\ tasks' = [tasks EXCEPT ![i].state = "raised",
                        ![i].error = "Exporter missing create_campaign_flow method"]
                /\ UNCHANGED <<invoked, remote_writes>>
           ELSE \E res \in (IF platform = "facebook"
                            THEN FacebookFlowResults(router_real, credentials)
                            ELSE GoogleFlowResults(router_real, allow_real_ads)) :
                    /\ tasks' = [tasks EXCEPT ![i].state = "done", ![i].result = res]
                    /\ invoked' = [invoked EXCEPT ![platform] = @ + 1]
                    /\ remote_writes' = remote_writes \cup
                           FlowRemoteWrites(platform, router_real, res,
                                            allow_real_ads, image_url, credentials)
    /\ UNCHANGED <<rpc, router_platforms, router_real, platform_map, router_results,
                   elapsed,
                   ledgerVars, requestVars, historyVars, campaignVars, exportVars,
                   gateVars, createVars, serviceVars>>

\* the flow of task i is invoked and never completes
call_exporter_hangs(i) ==
    /\ rpc = "gathering"
    /\ i \in 1..Len(tasks)
    /\ tasks[i].state = "pending"
    /\ tasks[i].platform \in HasCreateCampaignFlow
    /\ tasks' = [tasks EXCEPT ![i].state = "hung"]
    /\ invoked' = [invoked EXCEPT ![tasks[i].platform] = @ + 1]
    /\ UNCHANGED <<rpc, router_platforms, router_real, platform_map, router_results,
                   remote_writes, elapsed,
                   ledgerVars, requestVars, historyVars, campaignVars, exportVars,
                   gateVars, createVars, serviceVars>>

\* time passes while asyncio.gather waits; self.timeout is read nowhere
gather_waits ==
    /\ rpc = "gathering"
    /\ ~AllFinished
    /\ elapsed <= ROUTER_TIMEOUT
    /\ elapsed' = elapsed + ROUTER_TIMEOUT
    /\ UNCHANGED <<rpc, router_platforms, router_real, tasks, platform_map,
                   router_results, invoked, remote_writes,
                   ledgerVars, requestVars, historyVars, campaignVars, exportVars,
                   gateVars, createVars, serviceVars>>

\* asyncio.gather as it would be without return_exceptions=True: the first
\* exception of a task is raised by the call
export_to_platforms_gather_propagates ==
    /\ rpc = "gathering"
    /\ AllFinished
    /\ IF \E i \in 1..Len(tasks) : tasks[i].state = "raised"
       THEN /\ rpc' = "raised"
            /\ UNCHANGED router_results
       ELSE /\ rpc' = "returned"
            /\ router_results' = [p \in DOMAIN platform_map |->
                                     GatheredResult(tasks[platform_map[p]])]
    /\ UNCHANGED <<router_platforms, router_real, tasks, platform_map, invoked,
                   remote_writes, elapsed,
                   ledgerVars, requestVars, historyVars, campaignVars, exportVars,
                   gateVars, createVars, serviceVars>>

\* asyncio.gather returns once every task has finished; the results are
\* keyed by platform_map
export_to_platforms_gather ==
    /\ rpc = "gathering"
    /\ AllFinished
    /\ router_results' = [p \in DOMAIN platform_map |->
                             GatheredResult(tasks[platform_map[p]])]
    /\ rpc' = "returned"
    /\ UNCHANGED <<router_platforms, router_real, tasks, platform_map, invoked,
                   remote_writes, elapsed,
                   ledgerVars, requestVars, historyVars, campaignVars, exportVars,
                   gateVars, createVars, serviceVars>>

InitRouter ==
    /\ rpc = "idle"
    /\ router_platforms = << >>
    /\ router_real = FALSE
    /\ tasks = << >>
    /\ platform_map = EmptyMap
    /\ router_results = EmptyMap
    /\ invoked = [p \in HasCreateCampaignFlow |-> 0]
    /\ remote_writes = {}
    /\ elapsed = 0

NextRouter ==
    \/ \E list \in RouterLists, real \in BOOLEAN, failed \in SUBSET (1..MaxPlatforms) :
           export_to_platforms(list, real, failed)
    \/ \E i \in 1..MaxPlatforms, allow_real_ads \in BOOLEAN, image_url \in BOOLEAN,
          credentials \in BOOLEAN :
           call_exporter(i, allow_real_ads, image_url, credentials)
    \/ \E i \in 1..MaxPlatforms : call_exporter_hangs(i)
    \/ gather_waits
    \/ export_to_platforms_gather

\* ------------------------------------------------------------------------
\* export_campaign before its persistence block: loading the campaign, the
\* ownership check, the admin checks, the call of the router
\* ------------------------------------------------------------------------
\* what X-API-KEY can hold: nothing, the operator's key, another string
ApiKeys == {"none", "operator", "other"}

\* how the operator key is configured: not at all, settings.ADMIN_KEY,
\* settings.ADMIN_KEY_HASH
KeyConfigs == {"none", "ADMIN_KEY", "ADMIN_KEY_HASH"}

NoCall == [caller_owns |-> FALSE, create_real_ads |-> FALSE,
           x_api_key |-> "none", load_path |-> "none"]

\* the key check as it would be if a server without a configured key let
\* every key through
AdminKeyOk_unconfigured_passes(key_config, x_api_key) ==
    key_config = "none" \/ x_api_key = "operator"

\* export_campaign: ok, from bcrypt.checkpw against ADMIN_KEY_HASH or from
\* the comparison with ADMIN_KEY; False when neither is configured
AdminKeyOk(key_config, x_api_key) ==
    key_config # "none" /\ x_api_key = "operator"

\* export_campaign: the admin checks for real creation; the status they
\* raise, or "ok"
AdminChecks(real, allow_real_ads, key_config, x_api_key) ==
    IF ~real THEN "ok"
    ELSE IF ~allow_real_ads THEN "403"
    ELSE IF x_api_key = "none" THEN "401"
    ELSE IF ~AdminKeyOk(key_config, x_api_key) THEN "401"
    ELSE "ok"

\* get_from_cache: the entry generate_campaign stores is the campaign dict
\* itself, so "data, timestamp = ..." raises; add_to_cache stores a tuple
CacheLookup(entry) ==
    CASE entry = "tuple" -> "hit"
      [] entry = "raw" -> "raises"
      [] OTHER -> "miss"

\* the call may start
MayExport == gpc \in {"idle", "done", "refused"} /\ gate_calls < MaxExports

\* get_campaign: a cache hit is returned as it is; a database row is
\* returned to its owner and put in the cache with add_to_cache
get_campaign(caller_owns) ==
    /\ gpc \in {"idle", "done", "refused"}
    /\ CacheLookup(cache_entry) = "miss"
    /\ ~disk_file
    /\ campaign_row
    /\ caller_owns
    /\ cache_entry' = "tuple"
    /\ UNCHANGED <<gpc, gcall, server, campaign_row, disk_file, adapters_ran,
                   export_persisted, http_status, gate_calls,
                   routerVars, createVars,
                   ledgerVars, requestVars, historyVars, campaignVars, exportVars, serviceVars>>

\* export_campaign, step 1: load the campaign from memory, disk or the
\* database; only the database branch compares user_id with the caller
export_campaign_load(caller_owns, real, x_api_key) ==
    /\ MayExport
    /\ gate_calls' = gate_calls + 1
    /\ adapters_ran' = FALSE
    /\ export_persisted' = FALSE
    /\ LET found == CacheLookup(cache_entry)
           path == IF found = "hit" THEN "cache"
                   ELSE IF disk_file THEN "disk"
                   ELSE IF campaign_row THEN "db"
                   ELSE "none"
           status == IF found = "raises" THEN "500"
                     ELSE IF path = "db" /\ ~caller_owns THEN "403"
                     ELSE IF path = "none" THEN "404"
                     ELSE "ok"
       IN  /\ gcall' = [caller_owns |-> caller_owns,
                        create_real_ads |-> real,
                        x_api_key |-> x_api_key, load_path |-> path]
           /\ http_status' = status
           /\ gpc' = IF status = "ok" THEN "loaded" ELSE "refused"
    /\ UNCHANGED <<server, campaign_row, disk_file, cache_entry,
                   routerVars, createVars,
                   ledgerVars, requestVars, historyVars, campaignVars, exportVars, serviceVars>>

\* export_campaign, step 3: the admin checks for real creation
export_campaign_admin_checks ==
    /\ gpc = "loaded"
    /\ http_status' = AdminChecks(gcall.create_real_ads, server.allow_real_ads,
                                  server.key_config, gcall.x_api_key)
    /\ gpc' = IF http_status' = "ok" THEN "checked" ELSE "refused"
    /\ UNCHANGED <<gcall, server, campaign_row, disk_file, cache_entry,
                   adapters_ran, export_persisted, gate_calls,
                   routerVars, createVars,
                   ledgerVars, requestVars, historyVars, campaignVars, exportVars, serviceVars>>

\* export_campaign, step 4: platform_router.export_to_platforms runs the
\* adapters in the call's mode
export_campaign_call_router ==
    /\ gpc = "checked"
    /\ adapters_ran' = TRUE
    /\ gpc' = "exported"
    /\ UNCHANGED <<gcall, server, campaign_row, disk_file, cache_entry,
                   export_persisted, http_status, gate_calls,
                   routerVars, createVars,
                   ledgerVars, requestVars, historyVars, campaignVars, exportVars, serviceVars>>

\* export_campaign, step 5: the row is read again by its slug (no ownership
\* check), the export state is written and committed, the cache entry is
\* replaced with add_to_cache; or a write raises and the call answers 500
export_campaign_persist(write_fails) ==
    /\ gpc = "exported"
    /\ IF ~campaign_row
       THEN /\ http_status' = "404"
            /\ gpc' = "refused"
            /\ UNCHANGED <<export_persisted, cache_entry>>
       ELSE IF write_fails
       THEN /\ http_status' = "500"
            /\ gpc' = "refused"
            /\ UNCHANGED <<export_persisted, cache_entry>>
       ELSE /\ export_persisted' = TRUE
            /\ cache_entry' = "tuple"
            /\ http_status' = "200"
            /\ gpc' = "done"
    /\ UNCHANGED <<gcall, server, campaign_row, disk_file, adapters_ran,
                   gate_calls, routerVars, createVars,
                   ledgerVars, requestVars, historyVars, campaignVars, exportVars, serviceVars>>

\* the process starts: settings holds ALLOW_REAL_ADS and the operator key
\* (ADMIN_KEY or ADMIN_KEY_HASH, or neither) for the life of the process
load_settings(allow_real_ads, key_config) ==
    /\ gpc = "down"
    /\ server' = [allow_real_ads |-> allow_real_ads, key_config |-> key_config]
    /\ gpc' = "idle"
    /\ UNCHANGED <<gcall, campaign_row, disk_file, cache_entry, adapters_ran,
                   export_persisted, http_status, gate_calls,
                   routerVars, createVars,
                   ledgerVars, requestVars, historyVars, campaignVars, exportVars, serviceVars>>

\* generate_campaign, steps 6 and 7: the campaign's row is committed and
\* the raw dict is stored in campaigns_store
generate_campaign_store ==
    /\ gpc \in {"idle", "done", "refused"}
    /\ ~campaign_row
    /\ campaign_row' = TRUE
    /\ cache_entry' = "raw"
    /\ UNCHANGED <<gpc, gcall, server, disk_file, adapters_ran,
                   export_persisted, http_status, gate_calls,
                   routerVars, createVars,
                   ledgerVars, requestVars, historyVars, campaignVars, exportVars, serviceVars>>

\* add_to_cache for another campaign at capacity: the oldest entry is
\* dropped
add_to_cache_evicts ==
    /\ gpc \in {"idle", "done", "refused"}
    /\ cache_entry # "none"
    /\ cache_entry' = "none"
    /\ UNCHANGED <<gpc, gcall, server, campaign_row, disk_file, adapters_ran,
                   export_persisted, http_status, gate_calls,
                   routerVars, createVars,
                   ledgerVars, requestVars, historyVars, campaignVars, exportVars, serviceVars>>

\* the process before it has loaded its settings: no campaign, an empty
\* cache; nothing in src writes the campaign's disk file
InitGate ==
    /\ server = [allow_real_ads |-> FALSE, key_config |-> "none"]
    /\ campaign_row = FALSE
    /\ disk_file = FALSE
    /\ cache_entry = "none"
    /\ gpc = "down"
    /\ gcall = NoCall
    /\ adapters_ran = FALSE
    /\ export_persisted = FALSE
    /\ http_status = "none"
    /\ gate_calls = 0

NextGate ==
    \/ \E allow_real_ads \in BOOLEAN, key_config \in KeyConfigs :
           load_settings(allow_real_ads, key_config)
    \/ generate_campaign_store
    \/ add_to_cache_evicts
    \/ \E caller_owns \in BOOLEAN : get_campaign(caller_owns)
    \/ \E caller_owns \in BOOLEAN, real \in BOOLEAN, x_api_key \in ApiKeys :
           export_campaign_load(caller_owns, real, x_api_key)
    \/ export_campaign_admin_checks
    \/ export_campaign_call_router
    \/ \E write_fails \in BOOLEAN : export_campaign_persist(write_fails)

\* ------------------------------------------------------------------------
\* create_campaign (app/routers/campaigns.py): deduct, call the platforms,
\* refund when none was deployed
\* ------------------------------------------------------------------------
NoCreate == [required |-> 0, old_balance |-> 0, requested |-> 0,
             deducted |-> FALSE, platform_calls |-> 0, deployed |-> 0,
             refunds |-> 0, status |-> "none"]

\* the User object of the request: require_campaign_limit selects the row
CreateUser ==
    [credits_balance |-> credits_balance,
     total_credits_purchased |-> total_credits_purchased,
     total_credits_used |-> total_credits_used]

\* create_campaign, steps 1 to 3: the cost, the balance check (402 when it
\* fails), CreditService.deduct_credits before any platform call
create_campaign(num_platforms, has_advanced_targeting) ==
    /\ cpc \in {"idle", "ended"}
    /\ create_calls < MaxCalls
    /\ create_calls' = create_calls + 1
    /\ LET required_credits == calculate_campaign_cost(num_platforms,
                                                       has_advanced_targeting)
           balance_check == check_balance_result(CreateUser, required_credits)
           started == [NoCreate EXCEPT !.required = required_credits,
                                       !.old_balance = credits_balance,
                                       !.requested = num_platforms]
       IN  IF ~balance_check.has_enough
              \/ CreditService_insufficient(CreateUser, required_credits)
           THEN /\ ccall' = [started EXCEPT !.status = "402"]
                /\ cpc' = "ended"
                /\ UNCHANGED credits_balance
           ELSE /\ credits_balance' = credits_balance - required_credits
                /\ ccall' = [started EXCEPT !.deducted = TRUE]
                /\ cpc' = "deducted"
    /\ UNCHANGED <<total_credits_purchased, total_credits_used, credit_usages,
                   transactions, requestVars, historyVars, campaignVars,
                   exportVars, routerVars, gateVars, serviceVars>>

\* create_campaign, step 4: the loop over request.platforms; a platform that
\* is not supported or whose call raises is not deployed
create_campaign_platforms(deployed) ==
    /\ cpc = "deducted"
    /\ deployed \in 0..ccall.requested
    /\ ccall' = [ccall EXCEPT !.platform_calls = ccall.requested,
                              !.deployed = deployed]
    /\ cpc' = "called"
    /\ UNCHANGED <<create_calls, ledgerVars, requestVars, historyVars,
                   campaignVars, exportVars, routerVars, gateVars, serviceVars>>

\* create_campaign when no platform was deployed: refund_credits, then the
\* HTTPException 500 that the outer handler re-raises
create_campaign_none_deployed ==
    /\ cpc = "called"
    /\ ccall.deployed = 0
    /\ credits_balance' = credits_balance + ccall.required
    /\ ccall' = [ccall EXCEPT !.refunds = @ + 1, !.status = "500"]
    /\ cpc' = "ended"
    /\ UNCHANGED <<create_calls, total_credits_purchased, total_credits_used,
                   credit_usages, transactions, requestVars, historyVars,
                   campaignVars, exportVars, routerVars, gateVars, serviceVars>>

\* create_campaign, step 5: increment_campaign_count commits and the
\* response is built; when either raises, the outer "except Exception"
\* refunds the credits and answers 500
create_campaign_count(raises) ==
    /\ cpc = "called"
    /\ ccall.deployed >= 1
    /\ IF raises
       THEN /\ credits_balance' = credits_balance + ccall.required
            /\ ccall' = [ccall EXCEPT !.refunds = @ + 1, !.status = "500"]
       ELSE /\ ccall' = [ccall EXCEPT !.status = "200"]
            /\ UNCHANGED credits_balance
    /\ cpc' = "ended"
    /\ UNCHANGED <<create_calls, total_credits_purchased, total_credits_used,
                   credit_usages, transactions, requestVars, historyVars,
                   campaignVars, exportVars, routerVars, gateVars, serviceVars>>

InitCreate ==
    /\ cpc = "idle"
    /\ ccall = NoCreate
    /\ create_calls = 0

NextCreate ==
    \/ \E num_platforms \in 1..(MaxPlatforms + 2), has_advanced_targeting \in BOOLEAN :
           create_campaign(num_platforms, has_advanced_targeting)
    \/ \E deployed \in 0..(MaxPlatforms + 2) : create_campaign_platforms(deployed)
    \/ create_campaign_none_deployed
    \/ \E raises \in BOOLEAN : create_campaign_count(raises)

\* ------------------------------------------------------------------------
\* The adapters in commit mode: create_campaign_flow with create_real_ads
\* and the creation sequences _create_facebook_entities_sync and
\* _create_google_entities_sync
\* ------------------------------------------------------------------------
\* the four creation steps of a sequence, in the order of the code:
\* facebook: campaign, adset, creative, ad; google: budget, campaign,
\* ad group, ad
Steps == 1..4

\* what the provider answers to a creation request: an object with an
\* identifier, an object without one, or an exception
StepOutcomes == {"id", "no_id", "raises"}

\* the entries of "created" a facebook step reads before it sends its
\* request: adset reads campaign_id, ad reads adset_id and creative_id
FacebookReads(s) ==
    CASE s = 2 -> {1}
      [] s = 4 -> {2, 3}
      [] OTHER -> {}

\* create_campaign_flow in commit mode up to the creation sequence: the
\* adapter cannot begin without its SDK client and account (an error
\* result), otherwise the sequence starts
create_campaign_flow_real(platform, can_begin) ==
    /\ fpc \in {"idle", "returned"}
    /\ flow_calls < MaxCalls
    /\ flow_calls' = flow_calls + 1
    /\ flow_platform' = platform
    /\ flow_step' = 1
    /\ sent' = <<>>
    /\ created' = {}
    /\ failed_steps' = {}
    /\ errors' = 0
    /\ IF can_begin
       THEN /\ fpc' = "creating"
            /\ flow_status' = "none"
       ELSE /\ fpc' = "returned"
            /\ flow_status' = "error"
    /\ UNCHANGED <<notFlowVars>>

\* one step of _create_facebook_entities_sync: a missing entry of "created"
\* is a KeyError before the request is sent; an exception inside the step is
\* raised again and the outer handler returns the error result; an object
\* without an identifier is recorded in errors and the sequence goes on
create_facebook_step(outcome) ==
    /\ fpc = "creating"
    /\ flow_platform = "facebook"
    /\ flow_step \in Steps
    /\ IF ~(FacebookReads(flow_step) \subseteq created)
       THEN /\ failed_steps' = failed_steps \cup {flow_step}
            /\ errors' = errors + 1
            /\ flow_status' = "error"
            /\ fpc' = "returned"
            /\ UNCHANGED <<sent, created, flow_step>>
       ELSE /\ sent' = Append(sent, flow_step)
            /\ CASE outcome = "id" ->
                      /\ created' = created \cup {flow_step}
                      /\ flow_step' = flow_step + 1
                      /\ UNCHANGED <<failed_steps, errors, flow_status, fpc>>
                 [] outcome = "no_id" ->
                      /\ failed_steps' = failed_steps \cup {flow_step}
                      /\ errors' = errors + 1
                      /\ flow_step' = flow_step + 1
                      /\ UNCHANGED <<created, flow_status, fpc>>
                 [] OTHER ->
                      /\ failed_steps' = failed_steps \cup {flow_step}
                      /\ errors' = errors + 1
                      /\ flow_status' = "error"
                      /\ fpc' = "returned"
                      /\ UNCHANGED <<created, flow_step>>
    /\ UNCHANGED <<flow_platform, flow_calls,
                   notFlowVars>>

\* the end of _create_facebook_entities_sync: partial_success when errors
\* is not empty, success otherwise
create_facebook_entities_sync_return ==
    /\ fpc = "creating"
    /\ flow_platform = "facebook"
    /\ flow_step = 5
    /\ flow_status' = IF errors > 0 THEN "partial_success" ELSE "success"
    /\ fpc' = "returned"
    /\ UNCHANGED <<flow_platform, flow_step, sent, created, failed_steps,
                   errors, flow_calls,
                   notFlowVars>>

\* one step of _create_google_entities_sync: the request is sent and
\* resp.results[0].resource_name is read; an exception (a
\* GoogleAdsException, or the IndexError of an empty results list) ends the
\* sequence with the error result
create_google_step(outcome) ==
    /\ fpc = "creating"
    /\ flow_platform = "google"
    /\ flow_step \in Steps
    /\ sent' = Append(sent, flow_step)
    /\ IF outcome = "id"
       THEN /\ created' = created \cup {flow_step}
            /\ flow_step' = flow_step + 1
            /\ UNCHANGED <<failed_steps, flow_status, fpc>>
       ELSE /\ failed_steps' = failed_steps \cup {flow_step}
            /\ flow_status' = "error"
            /\ fpc' = "returned"
            /\ UNCHANGED <<created, flow_step>>
    /\ UNCHANGED <<flow_platform, errors, flow_calls,
                   notFlowVars>>

\* the end of _create_google_entities_sync: the success result
create_google_entities_sync_return ==
    /\ fpc = "creating"
    /\ flow_platform = "google"
    /\ flow_step = 5
    /\ flow_status' = "success"
    /\ fpc' = "returned"
    /\ UNCHANGED <<flow_platform, flow_step, sent, created, failed_steps,
                   errors, flow_calls,
                   notFlowVars>>

NextFlow ==
    \/ \E platform \in HasCreateCampaignFlow, can_begin \in BOOLEAN :
           create_campaign_flow_real(platform, can_begin)
    \/ \E outcome \in StepOutcomes : create_facebook_step(outcome)
    \/ create_facebook_entities_sync_return
    \/ \E outcome \in StepOutcomes : create_google_step(outcome)
    \/ create_google_entities_sync_return

\* ------------------------------------------------------------------------
\* The reasoning client (app/llm_reasoner/mistral_reasoner.py):
\* infer_audience_insights, generate_campaign_strategy, _call_mistral_api
\* ------------------------------------------------------------------------
\* the wait before the next attempt of _call_mistral_api, without its
\* jitter: the Retry-After value of a 429 when there is one, otherwise
\* min(60, 2 ** attempt)
WaitBeforeRetry(response, retry_after, n) ==
    IF response = "429" /\ retry_after.present
    THEN retry_after.seconds
    ELSE IF 2^n < BACKOFF_CAP THEN 2^n ELSE BACKOFF_CAP

\* what an operation does once one of its attempts has failed, as it would
\* be if the last failure were raised to the caller
AfterFailedAttempt_raises(op, outer) ==
    IF outer < max_retries - 1 THEN "retry" ELSE "raised"

\* what an operation does once one of its attempts has failed: wait
\* 2 ** attempt and try again, or return the fallback after the last attempt
AfterFailedAttempt(op, outer) ==
    IF outer < max_retries - 1 THEN "retry" ELSE "fallback"

\* what an operation does when _call_mistral_api raises or its text does
\* not parse: _generate_ai_insights catches and returns the fallback
\* insights; generate_campaign_strategy counts a failed attempt
AfterApiFailure(op, outer) ==
    IF op = "infer_audience_insights" THEN "fallback"
    ELSE AfterFailedAttempt(op, outer)

\* the operation starts: its first attempt, the first attempt of
\* _call_mistral_api
reasoner_call(op) ==
    /\ mpc \in {"idle", "returned"}
    /\ reasoner_calls < MaxCalls
    /\ reasoner_calls' = reasoner_calls + 1
    /\ operation' = op
    /\ outer_attempt' = 0
    /\ api_attempt' = 0
    /\ requests_sent' = 0
    /\ last_wait' = 0
    /\ all_failed' = TRUE
    /\ reasoner_result' = "none"
    /\ mpc' = "requesting"
    /\ UNCHANGED <<coreVars, flowVars, feedVars, insightsVars, defaultVars, cacheVars, paymentVars>>

\* one attempt of _call_mistral_api and what follows from its response
call_mistral_api(response, retry_after) ==
    /\ mpc = "requesting"
    /\ response = "invalid" => operation = "infer_audience_insights"
    /\ requests_sent' = requests_sent + 1
    /\ all_failed' = (all_failed /\ response # "valid")
    /\ LET api_retries == response \in {"429", "error_status", "timeout"}
                          /\ api_attempt < retry_attempts - 1
           next == IF response = "valid" THEN "ai"
                   ELSE IF api_retries THEN "api_retry"
                   ELSE IF response = "invalid"
                   THEN AfterFailedAttempt(operation, outer_attempt)
                   ELSE AfterApiFailure(operation, outer_attempt)
       IN  CASE next = "api_retry" ->
                  /\ api_attempt' = api_attempt + 1
                  /\ last_wait' = WaitBeforeRetry(response, retry_after, api_attempt)
                  /\ UNCHANGED <<outer_attempt, reasoner_result, mpc>>
             [] next = "retry" ->
                  /\ outer_attempt' = outer_attempt + 1
                  /\ api_attempt' = 0
                  /\ last_wait' = 2^outer_attempt
                  /\ UNCHANGED <<reasoner_result, mpc>>
             [] OTHER ->
                  /\ reasoner_result' = next
                  /\ mpc' = "returned"
                  /\ UNCHANGED <<outer_attempt, api_attempt, last_wait>>
    /\ UNCHANGED <<operation, reasoner_calls, coreVars, flowVars, feedVars, insightsVars, defaultVars, cacheVars, paymentVars>>

NextReasoner ==
    \/ \E op \in {"infer_audience_insights", "generate_campaign_strategy"} : reasoner_call(op)
    \/ \E response \in {"valid", "unparsable", "invalid", "429", "error_status", "timeout"}, retry_after \in {[present |-> FALSE, seconds |-> 0], [present |-> TRUE, seconds |-> 5], [present |-> TRUE, seconds |-> 120]} :
           call_mistral_api(response, retry_after)

\* ------------------------------------------------------------------------
\* The feed generator (app/feed_generator/platform_generator.py)
\* ------------------------------------------------------------------------
\* the values of the Platform enumeration: what CampaignInput.platforms,
\* and so campaign_data["platforms"], can hold
PlatformValues == {"facebook", "instagram", "tiktok", "youtube", "linkedin",
                   "x", "snapchat", "google", "pinterest"}

\* the loop body of generate_platform_feeds as it would be if a platform
\* that is not supported were left out of the result
FeedsPut_supported_only(feeds, platform, facebook_entry) ==
    IF Lower(platform) = "facebook"
    THEN [k \in DOMAIN feeds \cup {"facebook"} |->
              IF k = "facebook" THEN facebook_entry ELSE feeds[k]]
    ELSE feeds

\* the loop body of generate_platform_feeds: the facebook actions under the
\* key "facebook", an error entry under the platform's name otherwise
FeedsPut(feeds, platform, facebook_entry) ==
    IF Lower(platform) = "facebook"
    THEN [k \in DOMAIN feeds \cup {"facebook"} |->
              IF k = "facebook" THEN facebook_entry ELSE feeds[k]]
    ELSE [k \in DOMAIN feeds \cup {platform} |->
              IF k = platform THEN "not_supported" ELSE feeds[k]]

\* the loop of generate_platform_feeds over the list, from the left
RECURSIVE FeedsOf(_, _, _)
FeedsOf(feeds, list, facebook_entry) ==
    IF list = <<>> THEN feeds
    ELSE FeedsOf(FeedsPut(feeds, Head(list), facebook_entry), Tail(list),
                 facebook_entry)

\* generate_platform_feeds: _generate_facebook_actions returns the actions,
\* or an error entry when the access token or the ad account is not set
generate_platform_feeds(list, facebook_entry) ==
    /\ feed_calls < MaxCalls
    /\ feed_calls' = feed_calls + 1
    /\ feed_platforms' = list
    /\ feed_results' = FeedsOf(EmptyMap, list, facebook_entry)
    /\ UNCHANGED <<coreVars, flowVars, reasonerVars, insightsVars, defaultVars, cacheVars, paymentVars>>

NextFeeds ==
    \E list \in UNION {[1..k -> PlatformValues] : k \in 0..MaxPlatforms}, facebook_entry \in {"actions", "error"} :
        generate_platform_feeds(list, facebook_entry)

\* ------------------------------------------------------------------------
\* MistralReasoner._validate_insights_data: the age range
\* ------------------------------------------------------------------------
\* the defaults of required_fields
DEFAULT_AGE_MIN == 25
DEFAULT_AGE_MAX == 45

\* _validate_insights_data on the ages: a missing or falsy field takes its
\* default, the bounds are applied, then the price_range heuristic moves
\* age_min
validate_insights_data_ages(age_min, age_max, price_range) ==
    LET max(a, b) == IF a >= b THEN a ELSE b
        min(a, b) == IF a <= b THEN a ELSE b
        in_min == IF age_min = 0 THEN DEFAULT_AGE_MIN ELSE age_min
        in_max == IF age_max = 0 THEN DEFAULT_AGE_MAX ELSE age_max
        bounded_min == max(13, min(80, in_min))
        bounded_max == max(bounded_min + 1, min(80, in_max))
        out_min == CASE price_range = "luxury" -> max(bounded_min, 30)
                     [] price_range = "premium" -> max(bounded_min, 25)
                     [] price_range = "budget" -> min(bounded_min, 35)
                     [] OTHER -> bounded_min
    IN  [age_min |-> out_min, age_max |-> bounded_max]

\* one call of _validate_insights_data
validate_insights_data(age_min, age_max, price_range) ==
    /\ validate_calls < MaxCalls
    /\ validate_calls' = validate_calls + 1
    /\ insights_data' = [age_min |-> age_min, age_max |-> age_max,
                         price_range |-> price_range]
    /\ validated_data' = validate_insights_data_ages(age_min, age_max, price_range)
    /\ UNCHANGED <<coreVars, flowVars, reasonerVars, feedVars, defaultVars, cacheVars, paymentVars>>

NextInsights ==
    \E age_min \in {0, 5, 13, 20, 28, 30, 45, 79, 80, 95}, age_max \in {0, 5, 13, 20, 28, 30, 45, 79, 80, 95}, price_range \in {"absent", "budget", "mid-range", "premium", "luxury"} :
        validate_insights_data(age_min, age_max, price_range)

\* ------------------------------------------------------------------------
\* export_campaign's platform list (app/main.py): the default list is read
\* from the campaign's platform_feeds, and every export adds PlatformFeed
\* rows
\* ------------------------------------------------------------------------
\* a set of platforms as a list: the order of a dict's keys
RECURSIVE SetToSeq(_)
SetToSeq(S) ==
    IF S = {} THEN <<>>
    ELSE LET x == CHOOSE y \in S : TRUE
         IN  <<x>> \o SetToSeq(S \ {x})

\* how many entries of the list are the platform
Occurrences(list, platform) ==
    Cardinality({i \in 1..Len(list) : list[i] = platform})

\* campaign_data["platform_feeds"]: the dict of get_campaign and of
\* generate_campaign, or the list of PlatformFeed rows of export_campaign's
\* database branch
FeedsDict(platform_set) == [shape |-> "dict", keys |-> platform_set, rows |-> <<>>]

FeedsList(rows) == [shape |-> "list", keys |-> {}, rows |-> rows]

\* the PlatformFeed rows create_platform_feed writes for the platforms of a
\* list
RECURSIVE FeedRows(_, _)
FeedRows(list, origin) ==
    IF list = <<>> THEN <<>>
    ELSE <<[platform |-> Head(list), origin |-> origin]>> \o FeedRows(Tail(list), origin)

\* the platforms of an export_campaign call: the request's list, else
\* pf_keys (the keys of a dict, or the platform of every row of a list, in
\* order), else ["facebook"]
ExportPlatforms(requested, loaded_feeds) ==
    LET pf_keys ==
            IF loaded_feeds.shape = "dict" THEN SetToSeq(loaded_feeds.keys)
            ELSE [i \in 1..Len(loaded_feeds.rows) |->
                      loaded_feeds.rows[i].platform]
    IN  IF requested # <<>> THEN requested
        ELSE IF pf_keys # <<>> THEN pf_keys
        ELSE <<"facebook">>

\* generate_campaign: one PlatformFeed row for each platform of the
\* campaign, and the raw dict in campaigns_store
generate_campaign_feeds(campaign_platforms) ==
    /\ pf_rows = <<>>
    /\ pf_cache.kind = "none"
    /\ pf_rows' = FeedRows(SetToSeq(campaign_platforms), "generated")
    /\ pf_cache' = [kind |-> "raw",
                    platform_feeds |-> FeedsDict(campaign_platforms)]
    /\ UNCHANGED <<pf_invoked, pf_requested, pf_status, pf_calls, notDefaultVars>>

\* the process restarts, the entry expires or add_to_cache drops it as the
\* oldest
campaigns_store_drops ==
    /\ pf_cache.kind # "none"
    /\ pf_cache' = [kind |-> "none", platform_feeds |-> FeedsDict({})]
    /\ UNCHANGED <<pf_rows, pf_invoked, pf_requested, pf_status, pf_calls,
                   notDefaultVars>>

\* get_campaign on the database path: platform_feeds_dict has one key for
\* each platform of the rows, and the data is put in the cache
get_campaign_feeds ==
    /\ pf_cache.kind = "none"
    /\ pf_rows # <<>>
    /\ pf_cache' = [kind |-> "tuple",
                    platform_feeds |->
                        FeedsDict({pf_rows[i].platform : i \in 1..Len(pf_rows)})]
    /\ UNCHANGED <<pf_rows, pf_invoked, pf_requested, pf_status, pf_calls,
                   notDefaultVars>>

\* export_campaign by the owner: the campaign is loaded from the cache or
\* the database, the router runs one task for every entry of the list, one
\* PlatformFeed row is written for every key of the results and the loaded
\* data is put in the cache; a write that raises rolls the rows back
export_campaign_platforms(requested, write_fails) ==
    /\ pf_rows # <<>>
    /\ pf_calls < MaxExports
    /\ pf_calls' = pf_calls + 1
    /\ pf_requested' = requested
    /\ IF pf_cache.kind = "raw"
       THEN /\ pf_status' = "500"
            /\ pf_invoked' = [p \in HasCreateCampaignFlow |-> 0]
            /\ UNCHANGED <<pf_rows, pf_cache>>
       ELSE LET loaded_feeds == IF pf_cache.kind = "tuple"
                                  THEN pf_cache.platform_feeds
                                  ELSE FeedsList(pf_rows)
                platforms == ExportPlatforms(requested, loaded_feeds)
            IN  /\ pf_invoked' = [p \in HasCreateCampaignFlow |->
                                      Occurrences(platforms, p)]
                /\ IF write_fails
                   THEN /\ pf_status' = "500"
                        /\ UNCHANGED <<pf_rows, pf_cache>>
                   ELSE /\ pf_status' = "200"
                        /\ pf_rows' = pf_rows \o
                               FeedRows(SetToSeq(Range(platforms)), "export")
                        /\ pf_cache' = [kind |-> "tuple",
                                        platform_feeds |-> loaded_feeds]
    /\ UNCHANGED notDefaultVars

NextDefault ==
    \/ \E campaign_platforms \in {{"facebook"}, {"google"}, {"facebook", "google"}} :
           generate_campaign_feeds(campaign_platforms)
    \/ campaigns_store_drops
    \/ get_campaign_feeds
    \/ \E requested \in {<<>>, <<"facebook">>, <<"google">>},
          write_fails \in BOOLEAN :
           export_campaign_platforms(requested, write_fails)

\* ------------------------------------------------------------------------
\* The size of campaigns_store (app/main.py): entries stored directly are
\* raw dicts, entries stored with add_to_cache are (data, timestamp) pairs
\* ------------------------------------------------------------------------
\* len(campaigns_store)
CacheLen == raw_entries + tuple_entries

\* the kinds of entry popitem(last=False) can remove when the key being
\* stored is not the oldest
OldestKinds(own_tuple) ==
    (IF raw_entries > 0 THEN {"raw"} ELSE {})
    \cup (IF tuple_entries > own_tuple THEN {"tuple"} ELSE {})

\* generate_campaign, step 7: campaigns_store[campaign_slug] =
\* complete_campaign, a new key, without add_to_cache
generate_campaign_caches ==
    /\ CacheLen <= MAX_CACHE_SIZE
    /\ raw_entries' = raw_entries + 1
    /\ UNCHANGED <<tuple_entries, notCacheVars>>

\* add_to_cache for a key that is not in the cache (get_campaign and
\* export_campaign on the database branch): the oldest entry is dropped at
\* capacity, then the pair is stored
add_to_cache_new(oldest) ==
    /\ IF CacheLen >= MAX_CACHE_SIZE
       THEN /\ oldest \in OldestKinds(0)
            /\ raw_entries' = IF oldest = "raw" THEN raw_entries - 1
                              ELSE raw_entries
            /\ tuple_entries' = IF oldest = "tuple" THEN tuple_entries
                                ELSE tuple_entries + 1
       ELSE /\ oldest = "raw"
            /\ tuple_entries' = tuple_entries + 1
            /\ UNCHANGED raw_entries
    /\ UNCHANGED notCacheVars

\* add_to_cache for the key get_from_cache has just returned and moved to
\* the end (export_campaign after a cache hit): at capacity the oldest
\* entry, another one, is dropped, then the key's pair is replaced
add_to_cache_hit(oldest) ==
    /\ tuple_entries > 0
    /\ CacheLen >= MAX_CACHE_SIZE
    /\ oldest \in OldestKinds(1)
    /\ raw_entries' = IF oldest = "raw" THEN raw_entries - 1 ELSE raw_entries
    /\ tuple_entries' = IF oldest = "tuple" THEN tuple_entries - 1
                        ELSE tuple_entries
    /\ UNCHANGED notCacheVars

\* get_from_cache on a pair older than CACHE_TTL: the entry is deleted
get_from_cache_expired ==
    /\ tuple_entries > 0
    /\ tuple_entries' = tuple_entries - 1
    /\ UNCHANGED <<raw_entries, notCacheVars>>

NextCache ==
    \/ generate_campaign_caches
    \/ \E oldest \in {"raw", "tuple"} : add_to_cache_new(oldest)
    \/ \E oldest \in {"raw", "tuple"} : add_to_cache_hit(oldest)
    \/ get_from_cache_expired

\* ------------------------------------------------------------------------
\* RazorpayService.handle_subscription_payment (app/services/
\* razorpay_service.py): the subscription, its bonus credits and the
\* Payment record
\* ------------------------------------------------------------------------
PaymentIds == {"pay_1", "pay_2", "pay_3"}

\* order['notes']['tier'] of the order each payment pays: two starter
\* orders and one without bonus
OrderTier(payment_id) == IF payment_id = "pay_3" THEN "free" ELSE "starter"

\* get_subscription_credit_bonus
get_subscription_credit_bonus(tier) ==
    IF tier = "starter" THEN STARTER_BONUS_CREDITS ELSE 0

\* handle_subscription_payment up to the Payment record: an invalid
\* signature raises before anything is read; otherwise the user's
\* subscription is set and add_bonus_credits adds the bonus and commits,
\* or fails to commit, which is rolled back and raised
handle_subscription_payment(payment_id, is_valid, bonus_commit_fails) ==
    /\ ppc = "idle"
    /\ payment_calls < MaxCalls
    /\ payment_calls' = payment_calls + 1
    /\ LET tier == OrderTier(payment_id)
           bonus_credits == get_subscription_credit_bonus(tier)
       IN  /\ credits_balance + bonus_credits <= MaxBalance
           /\ IF ~is_valid \/ (bonus_credits > 0 /\ bonus_commit_fails)
              THEN /\ payment_status' = "raised"
                   /\ UNCHANGED <<ppc, payment_call, credits_balance,
                                  bonus_commits>>
              ELSE /\ payment_call' = [payment_id |-> payment_id, tier |-> tier]
                   /\ ppc' = "recording"
                   /\ payment_status' = "none"
                   /\ IF bonus_credits > 0
                      THEN /\ credits_balance' = credits_balance + bonus_credits
                           /\ bonus_commits' =
                                  [bonus_commits EXCEPT ![payment_id] = @ + 1]
                      ELSE UNCHANGED <<credits_balance, bonus_commits>>
    /\ UNCHANGED <<payment_records, total_credits_purchased, total_credits_used, credit_usages, transactions, requestVars, historyVars, campaignVars, exportVars, routerVars, gateVars, createVars, flowVars, reasonerVars, feedVars, insightsVars, defaultVars, cacheVars>>

\* handle_subscription_payment, the Payment record and its commit: the
\* unique stripe_payment_intent_id rejects a second record of the payment,
\* and any exception rolls back what is not committed yet and is raised
handle_subscription_payment_record(commit_fails) ==
    /\ ppc = "recording"
    /\ ppc' = "idle"
    /\ IF payment_records[payment_call.payment_id] # "none" \/ commit_fails
       THEN /\ payment_status' = "raised"
            /\ UNCHANGED payment_records
       ELSE /\ payment_status' = "success"
            /\ payment_records' =
                   [payment_records EXCEPT ![payment_call.payment_id] =
                        payment_call.tier]
    /\ UNCHANGED <<payment_call, payment_calls, credits_balance, bonus_commits,
                   total_credits_purchased, total_credits_used, credit_usages, transactions, requestVars, historyVars, campaignVars, exportVars, routerVars, gateVars, createVars, flowVars, reasonerVars, feedVars, insightsVars, defaultVars, cacheVars>>

NextPayment ==
    \/ \E payment_id \in PaymentIds, is_valid, bonus_commit_fails \in BOOLEAN :
           handle_subscription_payment(payment_id, is_valid, bonus_commit_fails)
    \/ \E commit_fails \in BOOLEAN : handle_subscription_payment_record(commit_fails)

InitService ==
    \* no create_campaign_flow_real call yet
    /\ fpc = "idle"
    /\ flow_platform = "none"
    /\ flow_step = 0
    /\ sent = <<>>
    /\ created = {}
    /\ failed_steps = {}
    /\ errors = 0
    /\ flow_status = "none"
    /\ flow_calls = 0
    \* no call of the reasoning client yet
    /\ mpc = "idle"
    /\ operation = "none"
    /\ outer_attempt = 0
    /\ api_attempt = 0
    /\ requests_sent = 0
    /\ last_wait = 0
    /\ all_failed = TRUE
    /\ reasoner_result = "none"
    /\ reasoner_calls = 0
    \* no generate_platform_feeds call yet
    /\ feed_calls = 0
    /\ feed_platforms = <<>>
    /\ feed_results = EmptyMap
    \* no _validate_insights_data call yet
    /\ validate_calls = 0
    /\ insights_data = [age_min |-> 0, age_max |-> 0, price_range |-> "absent"]
    /\ validated_data = [age_min |-> DEFAULT_AGE_MIN, age_max |-> DEFAULT_AGE_MAX]
    \* no campaign generated yet
    /\ pf_rows = <<>>
    /\ pf_cache = [kind |-> "none", platform_feeds |-> FeedsDict({})]
    /\ pf_invoked = [p \in HasCreateCampaignFlow |-> 0]
    /\ pf_requested = <<>>
    /\ pf_status = "none"
    /\ pf_calls = 0
    \* the cache is empty
    /\ raw_entries = 0
    /\ tuple_entries = 0
    \* no payment handled yet
    /\ ppc = "idle"
    /\ payment_call = [payment_id |-> "none", tier |-> "none"]
    /\ payment_status = "none"
    /\ payment_records = [p \in PaymentIds |-> "none"]
    /\ bonus_commits = [p \in PaymentIds |-> 0]
    /\ payment_calls = 0

Init ==
    /\ InitLedger /\ InitExport /\ InitRouter /\ InitGate /\ InitCreate
    /\ InitService

\* the ledger under concurrent requests
Spec == Init /\ [][NextLedger]_vars

\* the export state store
SpecExport == Init /\ [][NextExport]_vars

\* one export_to_platforms call
SpecRouter == Init /\ [][NextRouter]_vars

\* export_campaign calls up to their persistence, and get_campaign
SpecGate == Init /\ [][NextGate]_vars

\* create_campaign calls of one user, one after the other
SpecCreate == Init /\ [][NextCreate]_vars

\* create_campaign_flow calls in commit mode, one after the other
SpecFlow == Init /\ [][NextFlow]_vars

\* calls of the reasoning client, one after the other
SpecReasoner == Init /\ [][NextReasoner]_vars

\* generate_platform_feeds calls
SpecFeeds == Init /\ [][NextFeeds]_vars

\* _validate_insights_data calls
SpecInsights == Init /\ [][NextInsights]_vars

\* generate_campaign, get_campaign and export_campaign calls on one campaign
SpecDefault == Init /\ [][NextDefault]_vars

\* the writes to campaigns_store of any sequence of calls
SpecCache == Init /\ [][NextCache]_vars

\* handle_subscription_payment calls, one after the other
SpecPayment == Init /\ [][NextPayment]_vars

\* ------------------------------------------------------------------------
\* Properties of the credit ledger (specification Spec)
\* ------------------------------------------------------------------------
\* C1: concurrent deductions of one user never overspend: the successful
\* deductions total at most the starting balance plus the credits added, and
\* the stored balance is no more than what those deductions leave.
C1_NoOverspend ==
    /\ deducted <= FREE_CREDITS_ON_SIGNUP + credited
    /\ credits_balance <= FREE_CREDITS_ON_SIGNUP + credited - deducted

SucceededTransactions ==
    {i \in 1..Len(transactions) : transactions[i].status = "success"}

\* C2: every committed change of credits_balance has exactly one audit row
\* (a CreditUsage row or a completed Transaction row): as many rows as
\* changes.
C2_EveryMutationAudited ==
    mutations = Len(credit_usages) + Cardinality(SucceededTransactions)

\* C3: the stored credits_balance is never negative, whatever the calls and
\* their interleaving.
C3_BalanceNeverNegative ==
    credits_balance >= 0

\* two requests deducted from the same stale balance, and the balance is low
C3_Witness ==
    /\ deducted > FREE_CREDITS_ON_SIGNUP + credited
    /\ credits_balance < CAMPAIGN_CREDIT_COST_BASIC

\* slot r makes a ledger call in this step (generate_campaign's call of
\* record_credit_usage is not counted in ncalls)
Calls(r) == ncalls'[r] # ncalls[r] \/ pc[r] = "reasoning"

\* C4: refund_credits right after a successful deduct_credits of the same
\* amount puts the balance back and leaves two audit rows, the deduction's
\* and the refund's, whose balances chain.
C4_DeductRefundRoundTrip ==
    [][\A r \in Req :
        ( /\ pc[r] = "ready"
          /\ result[r].op = "deduct_credits"
          /\ result[r].status = "success"
          /\ ncalls'[r] # ncalls[r]
          /\ result'[r].op = "refund_credits"
          /\ result'[r].amount = result[r].amount )
        => /\ credits_balance' = result[r].old_balance
           /\ Len(credit_usages) >= 1
           /\ Len(credit_usages') = Len(credit_usages) + 1
           /\ credit_usages[Len(credit_usages)].balance_before = result[r].old_balance
           /\ credit_usages'[Len(credit_usages')].balance_before
                  = credit_usages[Len(credit_usages)].balance_after
           /\ credit_usages'[Len(credit_usages')].balance_after = result[r].old_balance
      ]_vars

DeductOps == {"deduct_credits", "SubscriptionChecker.deduct_credits",
              "record_credit_usage"}

\* C5: a deduction of more than the current (stored) balance fails with the
\* insufficient-credits error and changes neither the stored balance and
\* counters nor the audit tables.
C5_RejectedDeductionIsNoOp ==
    [][\A r \in Req :
        ( /\ Calls(r)
          /\ result'[r].op \in DeductOps
          /\ result'[r].amount > credits_balance )
        => /\ result'[r].status = "insufficient_credits"
           /\ UNCHANGED ledgerVars
      ]_vars

\* C6: check_balance changes nothing, and is_low_balance is true exactly
\* when the balance is at most LOW_BALANCE_THRESHOLD, whether or not the
\* balance is enough.
C6_CheckBalanceReadOnly ==
    [][\A r \in Req :
        ( /\ ncalls'[r] # ncalls[r]
          /\ result'[r].op = "check_balance" )
        => /\ UNCHANGED ledgerVars
           /\ user' = user
           /\ pc' = pc
           /\ result'[r].current_balance = user[r].credits_balance
           /\ result'[r].is_low_balance
                  = (user[r].credits_balance <= LOW_BALANCE_THRESHOLD)
      ]_vars

\* a check that failed on a low balance, after the balance had changed
C6_Witness ==
    \E r \in Req :
        /\ result[r].op = "check_balance"
        /\ ~result[r].has_enough
        /\ result[r].is_low_balance
        /\ mutations >= 1

\* ------------------------------------------------------------------------
\* Properties of the export state store (specification SpecExport)
\* ------------------------------------------------------------------------
\* C7: no step of an export_campaign call changes exported_ids[p] when the
\* call's result for p is not a success.
C7_FailedExportKeepsIds ==
    [][\A p \in DOMAIN exported_ids :
        ( /\ Calling
          /\ p \in DOMAIN results
          /\ results[p].status # "success" )
        => /\ p \in DOMAIN exported_ids'
           /\ exported_ids'[p] = exported_ids[p]
      ]_vars

\* a call whose result for p failed has been committed, and p still has the
\* identifiers of an earlier success
C7_Witness ==
    /\ epc = "done"
    /\ Len(export_history) >= 2
    /\ \E p \in DOMAIN results \cap DOMAIN exported_ids :
          /\ results[p].status # "success"
          /\ exported_ids[p] # EmptyMap

\* C8: after an export_campaign call, exported_ids[p] is the identifier set
\* the adapter of p returned, for every p whose result is a success.
C8_AggregateIsLastSuccess ==
    epc = "done" =>
        \A p \in DOMAIN results :
            results[p].status = "success" =>
                /\ p \in DOMAIN exported_ids
                /\ exported_ids[p] = ReturnedIds(results[p])

\* C9: after an export_campaign call in which the attempt of p did not
\* succeed, the last export_history entry is the call's and names p.
C9_FailedAttemptInHistory ==
    epc = "done" =>
        \A p \in DOMAIN results :
            results[p].status # "success" =>
                /\ export_history # << >>
                /\ export_history[Len(export_history)].ts = attempt
                /\ p \in DOMAIN export_history[Len(export_history)].exported_ids

\* C10: until an export_campaign call commits, none of its writes is in the
\* database or in the cache; a call that fails leaves both as they were.
C10_ExportUnitOfWork ==
    [][(Calling /\ epc' # "done")
        => UNCHANGED <<campaignVars, campaigns_store>>]_vars

\* a call failed after it had flushed rows and the aggregate
C10_Witness ==
    /\ epc = "failed"
    /\ rolled_back >= 3

\* ------------------------------------------------------------------------
\* Properties of the orchestrator (specification SpecRouter)
\* ------------------------------------------------------------------------
\* the names of the list, as export_to_platforms spells them
RequestedLower == {Lower(router_platforms[i]) : i \in 1..Len(router_platforms)}

\* C11 as stated: the map export_to_platforms returns for a list of N names
\* has exactly N entries, one under each requested name.
C11_MapHasOneEntryPerListedName ==
    rpc = "returned" =>
        /\ Cardinality(DOMAIN router_results) = Len(router_platforms)
        /\ \A i \in 1..Len(router_platforms) :
               router_platforms[i] \in DOMAIN router_results

\* C11, amended: the map export_to_platforms returns has exactly one entry
\* for each distinct lower-cased name of the list, under the lower-cased
\* name; it has N entries when the N names differ after lower-casing.
C11_MapHasOneEntryPerDistinctName ==
    rpc = "returned" =>
        /\ DOMAIN router_results = RequestedLower
        /\ \A p \in DOMAIN router_results : router_results[p].platform = p
        /\ (Cardinality(RequestedLower) = Len(router_platforms)
               => Cardinality(DOMAIN router_results) = Len(router_platforms))

\* a call returned for a list that names a provider twice, once capitalised
C11_Witness ==
    /\ rpc = "returned"
    /\ Len(router_platforms) >= 2
    /\ \E i \in 1..Len(router_platforms) : router_platforms[i] = "Facebook"
    /\ Cardinality(DOMAIN router_results) < Len(router_platforms)

\* C12: export_to_platforms never raises, and in the map it returns an
\* unknown name has its own skipped entry, a provider whose adapter raised
\* has an error entry with the raised message, and every other provider was
\* invoked and has the dict its adapter returned.
C12_FailureIsolation ==
    /\ rpc # "raised"
    /\ rpc = "returned" =>
          \A p \in DOMAIN platform_map :
              LET task == tasks[platform_map[p]]
              IN  /\ p \in DOMAIN router_results
                  /\ p \notin RouterKnown =>
                         /\ router_results[p].status = "skipped"
                         /\ router_results[p].platform = p
                  /\ task.state = "raised" =>
                         /\ router_results[p].status = "error"
                         /\ router_results[p].platform = p
                         /\ router_results[p].message = task.error
                  /\ (task.kind = "exporter" /\ task.state # "raised") =>
                         /\ task.state = "done"
                         /\ invoked[p] >= 1
                         /\ router_results[p] = task.result

\* a call returned with a skipped entry, an error entry of an adapter that
\* raised, and a result of an adapter that ran
C12_Witness ==
    /\ rpc = "returned"
    /\ \E p \in DOMAIN router_results : tasks[platform_map[p]].state = "raised"
    /\ \E p \in DOMAIN router_results :
           /\ tasks[platform_map[p]].kind = "exporter"
           /\ tasks[platform_map[p]].state = "done"

\* C13: when one adapter never completes and the others have, the call has
\* returned once the timeout has passed, with an error entry for the hung
\* provider.
C13_HungProviderTimesOut ==
    ( /\ \E i \in 1..Len(tasks) : tasks[i].state = "hung"
      /\ \A i \in 1..Len(tasks) : tasks[i].state \in {"hung", "done", "raised"}
      /\ elapsed > ROUTER_TIMEOUT )
    => /\ rpc = "returned"
       /\ \A i \in 1..Len(tasks) :
              tasks[i].state = "hung" =>
                  /\ tasks[i].platform \in DOMAIN router_results
                  /\ router_results[tasks[i].platform].status = "error"

\* C14: within one export_to_platforms call the adapter of each provider is
\* invoked at most once.
C14_AdapterInvokedAtMostOnce ==
    \A p \in DOMAIN invoked : invoked[p] <= 1

\* the keys a result carries its identifier set under
IdentifierKeys == {"exported_ids", "created", "campaign_id"}

\* C15: every result export_to_platforms returns has the keys status,
\* platform and message, and a success or partial_success also has the
\* identifier set and the step-detail map.
C15_ResultFields ==
    rpc = "returned" =>
        \A p \in DOMAIN router_results :
            LET res == router_results[p]
            IN  /\ {"status", "platform", "message"} \subseteq res.fields
                /\ res.status \in {"success", "partial_success"} =>
                       /\ res.fields \cap IdentifierKeys # {}
                       /\ "step_details" \in res.fields

\* ------------------------------------------------------------------------
\* Properties of export_campaign's checks (specification SpecGate)
\* ------------------------------------------------------------------------
\* C16: export_campaign calls the router in commit mode only when real ads
\* are enabled on the server, an operator key is configured and X-API-KEY
\* matched it; the checks are made before the router is called.
C16_CommitModeIsGated ==
    /\ (adapters_ran /\ gcall.create_real_ads) =>
           /\ server.allow_real_ads
           /\ server.key_config # "none"
           /\ gcall.x_api_key = "operator"
    /\ (gpc = "checked" /\ gcall.create_real_ads) =>
           /\ ~adapters_ran
           /\ server.allow_real_ads
           /\ server.key_config # "none"
           /\ gcall.x_api_key = "operator"

\* the adapters ran in commit mode
C16_Witness ==
    /\ adapters_ran
    /\ gcall.create_real_ads
    /\ gpc = "done"

\* C17: export_campaign runs the adapters and persists export state only
\* when the campaign exists and belongs to the caller, on every load path.
C17_OnlyOwnerExports ==
    (adapters_ran \/ export_persisted) =>
        /\ campaign_row
        /\ gcall.caller_owns

C19_RefundOnlyWhenNoneDeployed ==
    /\ ccall.platform_calls > 0 => ccall.deducted
    /\ (cpc = "ended" /\ ccall.deducted) =>
           IF ccall.deployed = 0
           THEN /\ credits_balance = ccall.old_balance
                /\ ccall.refunds = 1
           ELSE /\ credits_balance = ccall.old_balance - ccall.required
                /\ ccall.refunds = 0

\* ------------------------------------------------------------------------
\* Properties of the adapters in preview mode (specification SpecRouter)
\* ------------------------------------------------------------------------
\* C20: in preview mode no create_campaign_flow sends a request that
\* changes provider state.
C20_PreviewSendsNoRemoteWrite ==
    \A w \in remote_writes : w.create_real_ads

\* ------------------------------------------------------------------------
\* Properties of the creation sequences (specification SpecFlow)
\* ------------------------------------------------------------------------
\* C21: in commit mode the status is success only if every creation step
\* succeeded, partial_success if the first step succeeded and a later step
\* failed, and error if the first step failed or the adapter could not
\* begin.
C21_StatusFollowsSteps ==
    fpc = "returned" =>
        /\ flow_status = "success" =>
               (created = Steps /\ failed_steps = {})
        /\ (1 \in created /\ failed_steps # {}) =>
               flow_status = "partial_success"
        /\ (1 \notin created) => flow_status = "error"

\* C24: the creation steps are sent in order, and once a step has failed no
\* later creation step is sent to the provider.
C24_NoStepAfterFailure ==
    /\ \A i \in 1..Len(sent), j \in 1..Len(sent) : i < j => sent[i] < sent[j]
    /\ \A f \in failed_steps : \A i \in 1..Len(sent) : sent[i] <= f

\* ------------------------------------------------------------------------
\* Properties of the reasoning client (specification SpecReasoner)
\* ------------------------------------------------------------------------
\* C22: every call of infer_audience_insights and of
\* generate_campaign_strategy sends at most max_retries * retry_attempts
\* requests, returns without raising, and returns the fallback when every
\* request failed.
C22_ReasonerReturnsWithinBound ==
    /\ requests_sent <= max_retries * retry_attempts
    /\ mpc = "requesting" => requests_sent < max_retries * retry_attempts
    /\ mpc = "returned" =>
           /\ reasoner_result \in {"ai", "fallback"}
           /\ all_failed => reasoner_result = "fallback"

\* generate_campaign_strategy returned the fallback after every request of
\* both attempts failed
C22_Witness ==
    /\ mpc = "returned"
    /\ operation = "generate_campaign_strategy"
    /\ requests_sent = max_retries * retry_attempts
    /\ all_failed
    /\ reasoner_result = "fallback"

\* C25: every wait between two attempts of _call_mistral_api is at most
\* the backoff cap (plus jitter), whatever the responses, Retry-After
\* included.
C25_WaitIsCapped ==
    last_wait <= BACKOFF_CAP

\* ------------------------------------------------------------------------
\* Properties of the feed generator (specification SpecFeeds)
\* ------------------------------------------------------------------------
\* C23: generate_platform_feeds returns exactly one feed entry for each
\* distinct requested platform, keyed by the platform name, supported or
\* not.
C23_OneFeedPerPlatform ==
    feed_calls > 0 =>
        /\ DOMAIN feed_results = {feed_platforms[i] : i \in 1..Len(feed_platforms)}
        /\ \A k \in DOMAIN feed_results :
               feed_results[k] \in {"actions", "error", "not_supported"}

\* a platform that is not supported was requested twice
C23_Witness ==
    /\ feed_calls > 0
    /\ feed_platforms = <<"tiktok", "tiktok">>
    /\ DOMAIN feed_results = {"tiktok"}

\* ------------------------------------------------------------------------
\* Properties of _validate_insights_data (specification SpecInsights)
\* ------------------------------------------------------------------------
\* C26: for every parsed response with integer ages, with or without a
\* price_range, _validate_insights_data returns
\* 13 <= age_min < age_max <= 80.
C26_AgeRangeIsValid ==
    validate_calls > 0 =>
        /\ 13 <= validated_data.age_min
        /\ validated_data.age_min < validated_data.age_max
        /\ validated_data.age_max <= 80

\* ------------------------------------------------------------------------
\* Properties of export_campaign's platform list (specification SpecDefault)
\* ------------------------------------------------------------------------
\* C27: an export_campaign call without a platform list exports each
\* platform of the campaign exactly once, however many exports were made
\* before.
C27_DefaultListExportsOnce ==
    (pf_calls > 0 /\ pf_requested = <<>> /\ pf_status = "200") =>
        \A i \in 1..Len(pf_rows) :
            pf_rows[i].origin = "generated" => pf_invoked[pf_rows[i].platform] = 1

\* ------------------------------------------------------------------------
\* Properties of campaigns_store (specifications SpecCache and SpecGate)
\* ------------------------------------------------------------------------
\* C28: after any sequence of generate_campaign, get_campaign and
\* export_campaign calls the cache holds at most MAX_CACHE_SIZE entries.
C28_CacheIsBounded ==
    CacheLen <= MAX_CACHE_SIZE

\* C29: every entry of the cache is a (data, timestamp) pair, and an
\* export_campaign call by the owner of a stored campaign does not fail
\* while it loads the campaign.
C29_CacheEntriesArePairs ==
    /\ cache_entry \in {"none", "tuple"}
    /\ (gpc = "refused" /\ campaign_row /\ gcall.caller_owns /\ ~adapters_ran) =>
           http_status \in {"401", "403"}

\* ------------------------------------------------------------------------
\* Properties of handle_subscription_payment (specification SpecPayment)
\* ------------------------------------------------------------------------
\* C30: for one payment id the subscription bonus is granted at most once,
\* however many times handle_subscription_payment is invoked with it: an
\* invocation for a payment that is recorded already, or one that raises,
\* leaves the balance as it was before the invocation.
C30_BonusOncePerPayment ==
    \A p \in PaymentIds : bonus_commits[p] <= 1

====
